---- MODULE Spec2Model ----
(***************************************************************************)
(* Module discovery, ordering and routing-table construction of an_website *)
(* (src/an_website/main.py), with the value types of                       *)
(* src/an_website/utils/utils.py.                                          *)
(*                                                                         *)
(* A Python str is modelled as the tuple of its characters, so that        *)
(* startswith, endswith, slicing, concatenation and the code point order   *)
(* are computed and not assumed.                                           *)
(***************************************************************************)
EXTENDS Integers, Sequences, FiniteSets, TLC

(***************************************************************************)
(* Bounds of the model                                                     *)
(***************************************************************************)
\* how many entries os.listdir(DIR) returns at most
MaxDirs == 2

\* how many times make_app is called in one process at most
MaxPasses == 2

\* the calls of parse with one type, one raw value and one mode
MaxCalls == 2

(***************************************************************************)
(* Strings                                                                 *)
(***************************************************************************)
\* the printable ASCII characters in code point order, from the space (32)
\* on; the quotation mark the reverse solidus and the grave
\* accent are spelled out
Ascii ==
    <<" ", "!", "QUOTATION MARK", "#", "$", "%", "&", "'", "(", ")", "*", "+", ",", "-", ".", "/", "0", "1", "2", "3", "4", "5", "6", "7", "8", "9", ":", ";", "<", "=", ">", "?", "@", "A", "B", "C", "D", "E", "F", "G", "H", "I", "J", "K", "L", "M", "N", "O", "P", "Q", "R", "S", "T", "U", "V", "W", "X", "Y", "Z", "[", "REVERSE SOLIDUS", "]", "^", "_", "GRAVE ACCENT", "a", "b", "c", "d", "e", "f", "g", "h", "i", "j", "k", "l", "m", "n", "o", "p", "q", "r", "s", "t", "u", "v", "w", "x", "y", "z", "{", "|", "}", "~">>

\* ord(c)
Ord(c) == 31 + (CHOOSE i \in 1..Len(Ascii) : Ascii[i] = c)

\* Python's None; no str equals it
None == <<"None">>

\* "patches.*"
IGN_patches ==
    <<"p", "a", "t", "c", "h", "e", "s", ".", "*">>
\* "static.*"
IGN_static ==
    <<"s", "t", "a", "t", "i", "c", ".", "*">>
\* "templates.*"
IGN_templates ==
    <<"t", "e", "m", "p", "l", "a", "t", "e", "s", ".", "*">>
\* "utils.utils"
IGN_utils_utils ==
    <<"u", "t", "i", "l", "s", ".", "u", "t", "i", "l", "s">>
\* "utils.static_file_handling"
IGN_utils_static_file_handling ==
    <<"u", "t", "i", "l", "s", ".", "s", "t", "a", "t", "i", "c", "_", "f", "i", "l", "e", "_", "h", "a", "n", "d", "l", "i", "n", "g">>
\* "swapped_words.sw_config_file"
IGN_sw_config_file ==
    <<"s", "w", "a", "p", "p", "e", "d", "_", "w", "o", "r", "d", "s", ".", "s", "w", "_", "c", "o", "n", "f", "i", "g", "_", "f", "i", "l", "e">>
\* "quotes.quotes_img"
IGN_quotes_img ==
    <<"q", "u", "o", "t", "e", "s", ".", "q", "u", "o", "t", "e", "s", "_", "i", "m", "g">>
\* "quotes.share_page"
IGN_share_page ==
    <<"q", "u", "o", "t", "e", "s", ".", "s", "h", "a", "r", "e", "_", "p", "a", "g", "e">>
\* "backdoor.backdoor_client"
IGN_backdoor_client ==
    <<"b", "a", "c", "k", "d", "o", "o", "r", ".", "b", "a", "c", "k", "d", "o", "o", "r", "_", "c", "l", "i", "e", "n", "t">>
\* "lolwut.twin"
CFG_lolwut_twin ==
    <<"l", "o", "l", "w", "u", "t", ".", "t", "w", "i", "n">>
\* "__pycache__"
N_pycache ==
    <<"_", "_", "p", "y", "c", "a", "c", "h", "e", "_", "_">>
\* "static"
N_static ==
    <<"s", "t", "a", "t", "i", "c">>
\* "main.py"
N_main_py ==
    <<"m", "a", "i", "n", ".", "p", "y">>
\* "main_page"
N_main_page ==
    <<"m", "a", "i", "n", "_", "p", "a", "g", "e">>
\* "lolwut"
N_lolwut ==
    <<"l", "o", "l", "w", "u", "t">>
\* "quotes"
N_quotes ==
    <<"q", "u", "o", "t", "e", "s">>
\* "broken"
N_broken ==
    <<"b", "r", "o", "k", "e", "n">>
\* "stubs"
N_stubs ==
    <<"s", "t", "u", "b", "s">>
\* "api"
N_api ==
    <<"a", "p", "i">>
\* "ping"
N_ping ==
    <<"p", "i", "n", "g">>
\* "__init__.py"
F_init_py ==
    <<"_", "_", "i", "n", "i", "t", "_", "_", ".", "p", "y">>
\* "main_page.py"
F_main_page_py ==
    <<"m", "a", "i", "n", "_", "p", "a", "g", "e", ".", "p", "y">>
\* "img.py"
F_img_py ==
    <<"i", "m", "g", ".", "p", "y">>
\* "lolwut.py"
F_lolwut_py ==
    <<"l", "o", "l", "w", "u", "t", ".", "p", "y">>
\* "twin.py"
F_twin_py ==
    <<"t", "w", "i", "n", ".", "p", "y">>
\* "README.md"
F_readme ==
    <<"R", "E", "A", "D", "M", "E", ".", "m", "d">>
\* "quotes.py"
F_quotes_py ==
    <<"q", "u", "o", "t", "e", "s", ".", "p", "y">>
\* "quotes_img.py"
F_quotes_img_py ==
    <<"q", "u", "o", "t", "e", "s", "_", "i", "m", "g", ".", "p", "y">>
\* "ghost.py"
F_ghost_py ==
    <<"g", "h", "o", "s", "t", ".", "p", "y">>
\* "no_entry.py"
F_no_entry_py ==
    <<"n", "o", "_", "e", "n", "t", "r", "y", ".", "p", "y">>
\* "wrong_decl.py"
F_wrong_decl_py ==
    <<"w", "r", "o", "n", "g", "_", "d", "e", "c", "l", ".", "p", "y">>
\* "wrong_value.py"
F_wrong_value_py ==
    <<"w", "r", "o", "n", "g", "_", "v", "a", "l", "u", "e", ".", "p", "y">>
\* "misdeclared.py"
F_misdeclared_py ==
    <<"m", "i", "s", "d", "e", "c", "l", "a", "r", "e", "d", ".", "p", "y">>
\* "boom.py"
F_boom_py ==
    <<"b", "o", "o", "m", ".", "p", "y">>
\* "api.py"
F_api_py ==
    <<"a", "p", "i", ".", "p", "y">>
\* "ping.py"
F_ping_py ==
    <<"p", "i", "n", "g", ".", "p", "y">>
\* "ModuleInfo"
S_ModuleInfo ==
    <<"M", "o", "d", "u", "l", "e", "I", "n", "f", "o">>
\* "str"
S_str ==
    <<"s", "t", "r">>
\* "Start"
S_Start ==
    <<"S", "t", "a", "r", "t">>
\* "Startseite"
S_Startseite ==
    <<"S", "t", "a", "r", "t", "s", "e", "i", "t", "e">>
\* "LOLWUT"
S_LOLWUT ==
    <<"L", "O", "L", "W", "U", "T">>
\* "Redis"
S_Redis ==
    <<"R", "e", "d", "i", "s">>
\* "Zitate"
S_Zitate ==
    <<"Z", "i", "t", "a", "t", "e">>
\* "API"
S_API ==
    <<"A", "P", "I">>
\* "Ping"
S_Ping ==
    <<"P", "i", "n", "g">>
\* "/"
P_root ==
    <<"/">>
\* "/LOLWUT"
P_lolwut ==
    <<"/", "L", "O", "L", "W", "U", "T">>
\* "/LOLWUT/([0-9/]+)"
P_lolwut_args ==
    <<"/", "L", "O", "L", "W", "U", "T", "/", "(", "[", "0", "-", "9", "/", "]", "+", ")">>
\* "/A"
P_twin ==
    <<"/", "A">>
\* "/zitate"
P_zitate ==
    <<"/", "z", "i", "t", "a", "t", "e">>
\* "/zitate/img"
P_zitate_img ==
    <<"/", "z", "i", "t", "a", "t", "e", "/", "i", "m", "g">>
\* "/z"
P_z ==
    <<"/", "z">>
\* "/x"
P_x ==
    <<"/", "x">>
\* "/t"
P_t ==
    <<"/", "t">>
\* "/api/ping"
P_api_ping ==
    <<"/", "a", "p", "i", "/", "p", "i", "n", "g">>
\* "/ping"
P_ping ==
    <<"/", "p", "i", "n", "g">>
\* "img"
S_img ==
    <<"i", "m", "g">>
\* "ping"
S_ping ==
    <<"p", "i", "n", "g">>
\* "(?i)"
RE_ignorecase ==
    <<"(", "?", "i", ")">>
\* "(/.*|)"
RE_subpath ==
    <<"(", "/", ".", "*", "|", ")">>
\* "{0}"
S_placeholder ==
    <<"{", "0", "}">>
\* "(?i)/(.+)/api/?"
RE_any_api ==
    <<"(", "?", "i", ")", "/", "(", ".", "+", ")", "/", "a", "p", "i", "/", "?">>
\* "/api/{0}"
URL_api_any ==
    <<"/", "a", "p", "i", "/", "{", "0", "}">>
\* "(?i)/api/?"
RE_api ==
    <<"(", "?", "i", ")", "/", "a", "p", "i", "/", "?">>
\* "/api/endpunkte"
URL_api_endpunkte ==
    <<"/", "a", "p", "i", "/", "e", "n", "d", "p", "u", "n", "k", "t", "e">>
\* "/static/(.*)"
P_static ==
    <<"/", "s", "t", "a", "t", "i", "c", "/", "(", ".", "*", ")">>
\* "static"
S_static_dir ==
    <<"s", "t", "a", "t", "i", "c">>
\* "/favicon.ico"
P_favicon ==
    <<"/", "f", "a", "v", "i", "c", "o", "n", ".", "i", "c", "o">>
\* "/static/favicon.ico"
URL_favicon ==
    <<"/", "s", "t", "a", "t", "i", "c", "/", "f", "a", "v", "i", "c", "o", "n", ".", "i", "c", "o">>

(***************************************************************************)
(* str and list helpers                                                    *)
(***************************************************************************)
\* s.startswith(prefix)
StartsWith(s, prefix) ==
    /\ Len(s) >= Len(prefix)
    /\ SubSeq(s, 1, Len(prefix)) = prefix

\* s.endswith(suffix)
EndsWith(s, suffix) ==
    /\ Len(s) >= Len(suffix)
    /\ SubSeq(s, Len(s) - Len(suffix) + 1, Len(s)) = suffix

\* s[:-n]
DropLast(s, n) == SubSeq(s, 1, Len(s) - n)

\* the elements of a list
Range(list) == { list[i] : i \in 1..Len(list) }

\* x in list
Contains(list, x) == \E i \in 1..Len(list) : list[i] = x

\* sep.join(parts)
RECURSIVE Join(_, _)
Join(sep, parts) ==
    IF Len(parts) = 0 THEN <<>>
    ELSE IF Len(parts) = 1 THEN parts[1]
    ELSE parts[1] \o sep \o Join(sep, Tail(parts))

\* s.split(",")
RECURSIVE SplitComma(_)
SplitComma(s) ==
    IF \E i \in 1..Len(s) : s[i] = ","
    THEN LET i == CHOOSE k \in 1..Len(s) :
                      s[k] = "," /\ \A j \in 1..(k - 1) : s[j] # ","
         IN  <<SubSeq(s, 1, i - 1)>> \o SplitComma(SubSeq(s, i + 1, Len(s)))
    ELSE <<s>>

\* s.strip()
RECURSIVE Strip(_)
Strip(s) ==
    IF Len(s) > 0 /\ s[1] = " " THEN Strip(Tail(s))
    ELSE IF Len(s) > 0 /\ s[Len(s)] = " " THEN Strip(DropLast(s, 1))
    ELSE s

(***************************************************************************)
(* utils.py: PageInfo, ModuleInfo and the handler tuples                   *)
(***************************************************************************)
\* the handler types of tornado
NativeHandlers == {"RedirectHandler", "StaticFileHandler"}

\* the handler types of the modules, subclasses of BaseRequestHandler
ModuleHandlers == {"MainPage", "LOLWUT", "QuoteMainPage", "Ping"}

\* a test that takes every handler type for one of the modules
IsAnyHandler(handler_type) == handler_type \in ModuleHandlers \cup NativeHandlers

\* issubclass(handler_type, BaseRequestHandler)
IsModuleHandler(handler_type) == handler_type \in ModuleHandlers

\* a dict literal in a module's source; a dict object is <<"dict", address>>
DictLiteral(items) == <<"dict", items>>

\* a str value, a bool value and a ModuleInfo value of a dict
StrValue(s) == <<"str", s>>
BoolValue(b) == <<"bool", b>>
InfoValue(info) == <<"info", info>>

PageInfo(name, description, path, keywords) ==
    [name |-> name, description |-> description, path |-> path,
     keywords |-> keywords]

ModuleInfo(name, description, path, keywords, handlers_, sub_pages, aliases) ==
    [name |-> name, description |-> description, path |-> path,
     keywords |-> keywords, handlers |-> handlers_, sub_pages |-> sub_pages,
     aliases |-> aliases]

(***************************************************************************)
(* The modules a directory may hold: what get_module_info() of each one    *)
(* returns                                                                 *)
(***************************************************************************)
\* main_page/main_page.py: the home page, one rule of two elements
HomeInfo ==
    ModuleInfo(S_Start, S_Startseite, P_root, <<>>,
               << <<P_root, "MainPage">> >>, <<>>, <<>>)

\* lolwut/lolwut.py
LolwutInfo ==
    ModuleInfo(S_LOLWUT, S_Redis, P_lolwut, <<S_LOLWUT, S_Redis>>,
               << <<P_lolwut, "LOLWUT">>, <<P_lolwut_args, "LOLWUT">> >>,
               <<>>, <<>>)

\* lolwut/twin.py: name and description of lolwut, path "/", a named rule
TwinInfo ==
    ModuleInfo(S_LOLWUT, S_Redis, P_root, <<>>,
               << <<P_twin, "LOLWUT",
                    DictLiteral("title" :> StrValue(S_LOLWUT)), S_LOLWUT>> >>,
               <<>>, <<P_t>>)

\* quotes/quotes.py: a module rule with settings, a native rule, an alias
QuotesInfo ==
    ModuleInfo(S_Zitate, S_Zitate, P_zitate, <<S_Zitate>>,
               << <<P_zitate, "QuoteMainPage",
                    DictLiteral("title" :> StrValue(S_Zitate))>>,
                  <<P_zitate_img, "StaticFileHandler",
                    DictLiteral("path" :> StrValue(S_img))>> >>,
               <<PageInfo(S_Zitate, S_img, P_zitate_img, <<>>)>>,
               <<P_z>>)

\* api/api.py: no path, an alias, a native rule
ApiInfo ==
    ModuleInfo(S_API, S_API, None, <<>>,
               << <<P_api_ping, "RedirectHandler",
                    DictLiteral("url" :> StrValue(P_ping))>> >>,
               <<>>, <<P_x>>)

\* ping/ping.py: a named rule whose settings element is None
PingInfo ==
    ModuleInfo(S_Ping, S_Ping, P_ping, <<>>,
               << <<P_ping, "Ping", None, S_ping>> >>, <<>>, <<>>)

\* ping/ghost.py: name and description of lolwut, no path, no rule
GhostInfo ==
    ModuleInfo(S_LOLWUT, S_Redis, None, <<>>, <<>>, <<>>, <<>>)

\* the value get_module_info() of a module returns
ReturnValue(key) ==
    CASE key = "home" -> HomeInfo
      [] key = "lolwut" -> LolwutInfo
      [] key = "twin" -> TwinInfo
      [] key = "quotes" -> QuotesInfo
      [] key = "api" -> ApiInfo
      [] key = "ping" -> PingInfo
      [] key = "ghost" -> GhostInfo

\* A module file: whether it defines get_module_info, the return annotation
\* of it ("" when it has none), what a call does ("info": returns
\* ReturnValue(returns), "other": returns a value that is no ModuleInfo,
\* "raises": raises), and whether the import takes longer than 0.1 s.
Module(has_entry, annotation, call, returns, slow) ==
    [has_entry |-> has_entry, annotation |-> annotation, call |-> call,
     returns |-> returns, slow |-> slow]

GoodModule(returns) == Module(TRUE, S_ModuleInfo, "info", returns, FALSE)
SlowModule(returns) == Module(TRUE, S_ModuleInfo, "info", returns, TRUE)
NoEntryModule == Module(FALSE, <<>>, "other", "home", FALSE)
MisdeclaredModule == Module(TRUE, S_str, "info", "home", FALSE)
WrongValueModule == Module(TRUE, S_ModuleInfo, "other", "home", FALSE)
RaisingModule == Module(TRUE, S_ModuleInfo, "raises", "home", FALSE)

File(name, module) == [name |-> name, module |-> module]
Entry(name, isdir, files) == [name |-> name, isdir |-> isdir, files |-> files]

\* the entries os.listdir(DIR) may return, each with its own os.listdir
Entries ==
    { Entry(N_pycache, TRUE, <<File(F_main_page_py, GoodModule("home"))>>),
      Entry(N_static, TRUE, <<File(F_img_py, NoEntryModule)>>),
      Entry(N_main_py, FALSE, <<>>),
      Entry(N_main_page, TRUE,
            <<File(F_init_py, NoEntryModule),
              File(F_main_page_py, SlowModule("home"))>>),
      Entry(N_lolwut, TRUE,
            <<File(F_lolwut_py, GoodModule("lolwut")),
              File(F_readme, NoEntryModule),
              File(F_twin_py, GoodModule("twin"))>>),
      Entry(N_quotes, TRUE,
            <<File(F_quotes_img_py, NoEntryModule),
              File(F_quotes_py, GoodModule("quotes"))>>),
      Entry(N_stubs, TRUE,
            <<File(F_no_entry_py, NoEntryModule),
              File(F_misdeclared_py, MisdeclaredModule),
              File(F_wrong_value_py, WrongValueModule)>>),
      Entry(N_broken, TRUE,
            <<File(F_wrong_decl_py, MisdeclaredModule),
              File(F_boom_py, RaisingModule)>>),
      Entry(N_api, TRUE, <<File(F_api_py, GoodModule("api"))>>),
      Entry(N_ping, TRUE,
            <<File(F_ping_py, GoodModule("ping")),
              File(F_ghost_py, GoodModule("ghost"))>>) }

\* the listings of DIR: up to MaxDirs distinct entries in any order
Listings ==
    { l \in UNION { [1..n -> Entries] : n \in 0..MaxDirs } :
        \A i, j \in 1..Len(l) : i # j => l[i].name # l[j].name }

\* the values of IGNORED_MODULES in the section GENERAL of config.ini
Configs == { <<>>, CFG_lolwut_twin \o <<",", " ">> }

(***************************************************************************)
(* main.py: the state of one process start                                 *)
(***************************************************************************)
VARIABLES
    listing,          \* what os.listdir returns for DIR and its directories
    dev_mode,         \* sys.flags.dev_mode
    config,           \* config.get("GENERAL", "IGNORED_MODULES", fallback="")
    IGNORED_MODULES,  \* the global list of blocked modules
    pc,               \* where the process is
    di,               \* get_module_infos: position of potential_module
    fi,               \* get_module_infos: position of potential_file
    module_infos,     \* get_module_infos: the list, later the returned tuple
    loaded_modules,   \* get_module_infos: the names of the loaded modules
    errors,           \* get_module_infos: the error messages
    heap,             \* the dict objects, by address
    imported,         \* the files importlib.import_module loaded, by name
    invoked,          \* the files whose get_module_info was called
    log,              \* the records handed to the logger
    exit_msg,         \* the argument of sys.exit
    sorted_infos,     \* sort_module_infos: the list after list.sort()
    hi,               \* get_all_handlers: position of module_info
    handlers,         \* get_all_handlers: the list of handlers
    exception,        \* the exception that left a function, with the function
    app,              \* the tornado Application of make_app
    sys_modules,      \* sys.modules: the names of the modules imported so far
    passes,           \* the number of the call of make_app that is running
    previous,         \* what the call of make_app before this one produced
    server,           \* the HTTPServer app.listen returned
    request,          \* the path of the request the server handles
    response,         \* what the server answers to it
    type_,            \* parse: the type to parse into
    data,             \* parse: the raw value
    strict,           \* parse: the keyword argument strict
    outcomes,         \* what the calls parse(type_, data, strict=strict) gave
    calls,            \* the arguments of type_(*args, **kwargs) in each of them
    query,            \* parse_args: self.request.arguments
    answer,           \* parse_args: what new_func returned or raised
    now,              \* what time.time() returns
    timer,            \* the Timer object, with its attributes
    holder,           \* who holds the Timer: a caller or time_function
    timed             \* the calls on the Timer and what they gave

vars ==
    <<listing, dev_mode, config, IGNORED_MODULES, pc, di, fi, module_infos,
      loaded_modules, errors, heap, imported, invoked, log, exit_msg,
      sorted_infos, hi, handlers, exception, app, sys_modules, passes,
      previous, server, request, response, type_, data, strict, outcomes,
      calls, query, answer, now, timer, holder, timed>>

\* the call of parse and what came of it
parsing == <<type_, data, strict, outcomes, calls, query, answer>>

\* the Timer and the clock
timing == <<now, timer, holder, timed>>

\* what make_app and everything it calls leave alone
later == <<passes, previous, server, request, response, parsing, timing>>

\* no Timer was made
NoTimer ==
    /\ now = 0
    /\ timer = <<"None">>
    /\ holder = <<"None">>
    /\ timed = <<>>

inputs == <<listing, dev_mode, config>>

\* the list of blocked modules as main.py defines it
BuiltinIgnoredModules ==
    <<IGN_patches, IGN_static, IGN_templates, IGN_utils_utils,
      IGN_utils_static_file_handling, IGN_sw_config_file, IGN_quotes_img,
      IGN_share_page, IGN_backdoor_client>>

\* the package directory DIR
DIR == <<"DIR">>

Init ==
    /\ listing \in Listings
    /\ dev_mode \in BOOLEAN
    /\ config \in Configs
    /\ IGNORED_MODULES = BuiltinIgnoredModules
    /\ pc = "main"
    /\ di = 1
    /\ fi = 1
    /\ module_infos = <<>>
    /\ loaded_modules = <<>>
    /\ errors = <<>>
    /\ heap = <<>>
    /\ imported = <<>>
    /\ invoked = <<>>
    /\ log = <<>>
    /\ exit_msg = None
    /\ sorted_infos = <<>>
    /\ hi = 1
    /\ handlers = <<>>
    /\ exception = <<>>
    /\ app = None
    /\ sys_modules = {}
    /\ passes = 1
    /\ previous = None
    /\ server = None
    /\ request = None
    /\ response = None
    /\ type_ = None
    /\ data = None
    /\ strict = FALSE
    /\ outcomes = <<>>
    /\ calls = <<>>
    /\ query = None
    /\ answer = None
    /\ NoTimer

(***************************************************************************)
(* main: read ignored modules from the config                              *)
(***************************************************************************)
\* the module names of the config that are appended, in order
RECURSIVE ConfigModules(_)
ConfigModules(parts) ==
    IF Len(parts) = 0 THEN <<>>
    ELSE LET module_name == Strip(parts[1])
         IN  (IF Len(module_name) > 0 THEN <<module_name>> ELSE <<>>)
             \o ConfigModules(Tail(parts))

ReadConfig ==
    /\ pc = "main"
    /\ IGNORED_MODULES' = IGNORED_MODULES \o ConfigModules(SplitComma(config))
    /\ pc' = "scan_dir"
    /\ UNCHANGED <<later, sys_modules, exception, inputs, di, fi, module_infos, loaded_modules,
                   errors, heap,
                   imported, invoked, log, exit_msg, sorted_infos, hi,
                   handlers, app>>

(***************************************************************************)
(* get_module_infos: the scan                                              *)
(***************************************************************************)
potential_module == listing[di]
potential_file == potential_module.files[fi]

\* f"{potential_module}.{potential_file[:-3]}"
ModuleName(dir_name, file_name) ==
    dir_name \o <<".">> \o DropLast(file_name, 3)

\* the condition of the continue of the outer loop
SkipsDirectory(entry) ==
    \/ StartsWith(entry.name, <<"_">>)
    \/ Contains(IGNORED_MODULES, entry.name \o <<".", "*">>)
    \/ ~entry.isdir

\* SkipsFile without the look into IGNORED_MODULES
SkipsFileIgnoringBlockList(dir_name, file_name) ==
    \/ ~EndsWith(file_name, <<".", "p", "y">>)
    \/ StartsWith(file_name, <<"_">>)

\* SkipsFile that also passes over a module that is in sys.modules
SkipsFileAlreadyLoaded(dir_name, file_name) ==
    \/ ~EndsWith(file_name, <<".", "p", "y">>)
    \/ Contains(IGNORED_MODULES, ModuleName(dir_name, file_name))
    \/ StartsWith(file_name, <<"_">>)
    \/ ModuleName(dir_name, file_name) \in sys_modules

\* the condition of the continue of the inner loop
SkipsFile(dir_name, file_name) ==
    \/ ~EndsWith(file_name, <<".", "p", "y">>)
    \/ Contains(IGNORED_MODULES, ModuleName(dir_name, file_name))
    \/ StartsWith(file_name, <<"_">>)

\* f"{DIR}/{potential_module}/{potential_file}"
FilePath(dir_name, file_name) ==
    DIR \o <<"/">> \o dir_name \o <<"/">> \o file_name

\* the message for a module without get_module_info
NoMethodError(dir_name, file_name) ==
    FilePath(dir_name, file_name)
    \o <<" has no 'get_module_info' method. Please add the method or add '">>
    \o dir_name \o <<".", "*">> \o <<"' or '">>
    \o ModuleName(dir_name, file_name) \o <<"' to IGNORED_MODULES.">>

\* the message for a get_module_info that does not return ModuleInfo
NoModuleInfoError(dir_name, file_name) ==
    <<"'get_module_info' in ">> \o FilePath(dir_name, file_name)
    \o <<" does not return ModuleInfo. Please add/fix the return type or add '">>
    \o dir_name \o <<".", "*">> \o <<"' or '">>
    \o ModuleName(dir_name, file_name) \o <<"' to IGNORED_MODULES.">>

\* "get_module_info" in dir(module)
HasEntryPoint(module) == module.has_entry

\* a test of the annotation that every entry point passes
DeclaresAnything(module) == module.has_entry

\* module.get_module_info.__annotations__.get("return", "") == "ModuleInfo"
DeclaresModuleInfo(module) == module.annotation = S_ModuleInfo

\* isinstance(module.get_module_info(), ModuleInfo), for a call that returns
ReturnsModuleInfo(module) == module.call = "info"

\* The ModuleInfo a call of get_module_info creates: every dict literal of
\* its handlers becomes a new dict object on the heap.
RECURSIVE AllocateHandlers(_, _)
AllocateHandlers(rules, objects) ==
    IF Len(rules) = 0 THEN [rules |-> <<>>, heap |-> objects]
    ELSE LET rule == rules[1]
             is_dict == Len(rule) >= 3 /\ rule[3][1] = "dict"
             address == Len(objects) + 1
             first == IF is_dict
                      THEN [rule EXCEPT ![3] = <<"dict", address>>]
                      ELSE rule
             rest == AllocateHandlers(
                         Tail(rules),
                         IF is_dict THEN Append(objects, rule[3][2])
                         ELSE objects)
         IN  [rules |-> <<first>> \o rest.rules, heap |-> rest.heap]

CallGetModuleInfo(module, objects) ==
    LET value == ReturnValue(module.returns)
        made == AllocateHandlers(value.handlers, objects)
    IN  [info |-> [value EXCEPT !.handlers = made.rules], heap |-> made.heap]

\* the file the scan is at, as imported and invoked keep it
CurrentUnit ==
    [name |-> ModuleName(potential_module.name, potential_file.name),
     dir |-> potential_module.name, file |-> potential_file.name]

scan_frame ==
    <<inputs, IGNORED_MODULES, exit_msg, sorted_infos, hi, handlers, app>>

\* the outer loop skips an entry
SkipDir ==
    /\ pc = "scan_dir"
    /\ di <= Len(listing)
    /\ SkipsDirectory(potential_module)
    /\ di' = di + 1
    /\ UNCHANGED <<later, sys_modules, exception, scan_frame, pc, fi, module_infos, loaded_modules,
                   errors,
                   heap, imported, invoked, log>>

\* the outer loop lists a directory
EnterDir ==
    /\ pc = "scan_dir"
    /\ di <= Len(listing)
    /\ ~SkipsDirectory(potential_module)
    /\ pc' = "scan_file"
    /\ fi' = 1
    /\ UNCHANGED <<later, sys_modules, exception, scan_frame, di, module_infos, loaded_modules,
                   errors, heap,
                   imported, invoked, log>>

\* the inner loop is over
LeaveDir ==
    /\ pc = "scan_file"
    /\ fi > Len(potential_module.files)
    /\ pc' = "scan_dir"
    /\ di' = di + 1
    /\ UNCHANGED <<later, sys_modules, exception, scan_frame, fi, module_infos, loaded_modules,
                   errors, heap,
                   imported, invoked, log>>

\* the inner loop skips a file
SkipFile ==
    /\ pc = "scan_file"
    /\ fi <= Len(potential_module.files)
    /\ SkipsFile(potential_module.name, potential_file.name)
    /\ fi' = fi + 1
    /\ UNCHANGED <<later, sys_modules, exception, scan_frame, pc, di, module_infos, loaded_modules,
                   errors,
                   heap, imported, invoked, log>>

\* the file is imported
Imports ==
    /\ pc = "scan_file"
    /\ fi <= Len(potential_module.files)
    /\ ~SkipsFile(potential_module.name, potential_file.name)
    /\ imported' = Append(imported, CurrentUnit)
    /\ sys_modules' = sys_modules \cup {CurrentUnit.name}

\* the imported module has no get_module_info
ImportWithoutEntryPoint ==
    /\ Imports
    /\ ~HasEntryPoint(potential_file.module)
    /\ errors' = Append(errors, NoMethodError(potential_module.name,
                                              potential_file.name))
    /\ fi' = fi + 1
    /\ UNCHANGED <<later, exception, scan_frame, pc, di, module_infos, loaded_modules,
                   heap,
                   invoked, log>>

\* get_module_info is not annotated with ModuleInfo: it is not called
ImportMisdeclared ==
    /\ Imports
    /\ HasEntryPoint(potential_file.module)
    /\ ~DeclaresModuleInfo(potential_file.module)
    /\ errors' = Append(errors, NoModuleInfoError(potential_module.name,
                                                  potential_file.name))
    /\ fi' = fi + 1
    /\ UNCHANGED <<later, exception, scan_frame, pc, di, module_infos, loaded_modules,
                   heap,
                   invoked, log>>

\* get_module_info is called and raises: nothing catches the exception
ImportRaises ==
    /\ Imports
    /\ HasEntryPoint(potential_file.module)
    /\ DeclaresModuleInfo(potential_file.module)
    /\ potential_file.module.call = "raises"
    /\ invoked' = Append(invoked, CurrentUnit)
    /\ pc' = "raised"
    /\ exception' = <<"Exception", "get_module_info">>
    /\ UNCHANGED <<later, scan_frame, di, fi, module_infos, loaded_modules, errors,
                   heap, log>>

\* get_module_info is called and returns a value that is no ModuleInfo
ImportWrongValue ==
    /\ Imports
    /\ HasEntryPoint(potential_file.module)
    /\ DeclaresModuleInfo(potential_file.module)
    /\ potential_file.module.call # "raises"
    /\ ~ReturnsModuleInfo(potential_file.module)
    /\ invoked' = Append(invoked, CurrentUnit)
    /\ errors' = Append(errors, NoModuleInfoError(potential_module.name,
                                                  potential_file.name))
    /\ fi' = fi + 1
    /\ UNCHANGED <<later, exception, scan_frame, pc, di, module_infos, loaded_modules,
                   heap, log>>

\* the record of the warning about a slow import
SlowImportWarning(module_name) ==
    [level |-> "WARNING",
     msg |-> <<"Import of %s took %ss. That's affecting the startup time.">>,
     args |-> <<module_name>>]

\* get_module_info is called and returns a ModuleInfo
ImportModuleInfo ==
    /\ Imports
    /\ HasEntryPoint(potential_file.module)
    /\ DeclaresModuleInfo(potential_file.module)
    /\ potential_file.module.call # "raises"
    /\ ReturnsModuleInfo(potential_file.module)
    /\ LET module_name ==
               ModuleName(potential_module.name, potential_file.name)
           called == CallGetModuleInfo(potential_file.module, heap)
       IN  /\ invoked' = Append(invoked, CurrentUnit)
           /\ heap' = called.heap
           /\ module_infos' = Append(module_infos, called.info)
           /\ loaded_modules' = Append(loaded_modules, module_name)
           /\ log' = IF /\ potential_file.module.slow
                        /\ module_name \notin sys_modules
                     THEN Append(log, SlowImportWarning(module_name))
                     ELSE log
    /\ fi' = fi + 1
    /\ UNCHANGED <<later, exception, scan_frame, pc, di, errors>>

\* the outer loop is over
EndScan ==
    /\ pc = "scan_dir"
    /\ di > Len(listing)
    /\ pc' = "report"
    /\ UNCHANGED <<later, sys_modules, exception, scan_frame, di, fi, module_infos, loaded_modules,
                   errors,
                   heap, imported, invoked, log>>

(***************************************************************************)
(* get_module_infos: after the scan                                        *)
(***************************************************************************)
\* the two records logger.info gets
SummaryRecords ==
    << [level |-> "INFO", msg |-> <<"loaded %d modules: '%s'">>,
        args |-> <<Len(loaded_modules),
                   Join(<<"'", ",", " ", "'">>, loaded_modules)>>],
       [level |-> "INFO", msg |-> <<"ignored %d modules: '%s'">>,
        args |-> <<Len(IGNORED_MODULES),
                   Join(<<"'", ",", " ", "'">>, IGNORED_MODULES)>>] >>

\* errors in development mode: sys.exit
ExitOnErrors ==
    /\ pc = "report"
    /\ Len(errors) > 0
    /\ dev_mode
    /\ exit_msg' = Join(<<"\n">>, errors)
    /\ pc' = "exited"
    /\ UNCHANGED <<later, sys_modules, exception, inputs, IGNORED_MODULES, di, fi, module_infos,
                   loaded_modules, errors, heap, imported, invoked, log,
                   sorted_infos, hi, handlers, app>>

\* errors in production: logger.error, then the summary
LogErrors ==
    /\ pc = "report"
    /\ Len(errors) > 0
    /\ ~dev_mode
    /\ log' = Append(log, [level |-> "ERROR", msg |-> Join(<<"\n">>, errors),
                           args |-> <<>>])
              \o SummaryRecords
    /\ pc' = "sort"
    /\ UNCHANGED <<later, sys_modules, exception, inputs, IGNORED_MODULES, di, fi, module_infos,
                   loaded_modules, errors, heap, imported, invoked, exit_msg,
                   sorted_infos, hi, handlers, app>>

\* no errors: the summary
LogSummary ==
    /\ pc = "report"
    /\ Len(errors) = 0
    /\ log' = log \o SummaryRecords
    /\ pc' = "sort"
    /\ UNCHANGED <<later, sys_modules, exception, inputs, IGNORED_MODULES, di, fi, module_infos,
                   loaded_modules, errors, heap, imported, invoked, exit_msg,
                   sorted_infos, hi, handlers, app>>

(***************************************************************************)
(* The order of ModuleInfo: dataclass(order=True) compares the tuples of   *)
(* all fields.  A comparison is "lt", "eq", "gt", or "err" where Python    *)
(* raises TypeError.                                                       *)
(***************************************************************************)
\* the next comparison decides when the one before found equal elements
Then(first, second) == IF first = "eq" THEN second ELSE first

\* str < str: by code points, a proper prefix is smaller
RECURSIVE CmpStr(_, _)
CmpStr(s, t) ==
    IF Len(s) = 0 /\ Len(t) = 0 THEN "eq"
    ELSE IF Len(s) = 0 THEN "lt"
    ELSE IF Len(t) = 0 THEN "gt"
    ELSE IF s[1] = t[1] THEN CmpStr(Tail(s), Tail(t))
    ELSE IF Ord(s[1]) < Ord(t[1]) THEN "lt"
    ELSE "gt"

\* Optional[str]: None is equal to None and not ordered with a str
CmpOptionalStr(p, q) ==
    IF p = q THEN "eq"
    ELSE IF p = None \/ q = None THEN "err"
    ELSE CmpStr(p, q)

\* tuple[str, ...]
RECURSIVE CmpStrTuple(_, _)
CmpStrTuple(a, b) ==
    IF Len(a) = 0 /\ Len(b) = 0 THEN "eq"
    ELSE IF Len(a) = 0 THEN "lt"
    ELSE IF Len(b) = 0 THEN "gt"
    ELSE Then(CmpStr(a[1], b[1]), CmpStrTuple(Tail(a), Tail(b)))

\* two types are equal or not ordered
CmpType(x, y) == IF x = y THEN "eq" ELSE "err"

\* the settings element: None or a dict; dicts are equal or not ordered
CmpSettings(x, y, objects) ==
    IF x = None /\ y = None THEN "eq"
    ELSE IF x = None \/ y = None THEN "err"
    ELSE IF objects[x[2]] = objects[y[2]] THEN "eq"
    ELSE "err"

\* the elements of a handler tuple, from position i on
RECURSIVE CmpHandlerFrom(_, _, _, _)
CmpHandlerFrom(r, s, i, objects) ==
    IF i > Len(r) /\ i > Len(s) THEN "eq"
    ELSE IF i > Len(r) THEN "lt"
    ELSE IF i > Len(s) THEN "gt"
    ELSE Then(CASE i = 1 -> CmpStr(r[i], s[i])
                [] i = 2 -> CmpType(r[i], s[i])
                [] i = 3 -> CmpSettings(r[i], s[i], objects)
                [] OTHER -> CmpStr(r[i], s[i]),
              CmpHandlerFrom(r, s, i + 1, objects))

\* HandlerTuple
RECURSIVE CmpHandlers(_, _, _)
CmpHandlers(a, b, objects) ==
    IF Len(a) = 0 /\ Len(b) = 0 THEN "eq"
    ELSE IF Len(a) = 0 THEN "lt"
    ELSE IF Len(b) = 0 THEN "gt"
    ELSE Then(CmpHandlerFrom(a[1], b[1], 1, objects),
              CmpHandlers(Tail(a), Tail(b), objects))

\* PageInfo
CmpPageInfo(a, b) ==
    Then(CmpStr(a.name, b.name),
    Then(CmpStr(a.description, b.description),
    Then(CmpOptionalStr(a.path, b.path),
         CmpStrTuple(a.keywords, b.keywords))))

\* tuple[PageInfo, ...]
RECURSIVE CmpPageInfos(_, _)
CmpPageInfos(a, b) ==
    IF Len(a) = 0 /\ Len(b) = 0 THEN "eq"
    ELSE IF Len(a) = 0 THEN "lt"
    ELSE IF Len(b) = 0 THEN "gt"
    ELSE Then(CmpPageInfo(a[1], b[1]), CmpPageInfos(Tail(a), Tail(b)))

\* an order of ModuleInfo that looks at name and description only
CmpByNameAndDescription(a, b, objects) ==
    Then(CmpStr(a.name, b.name), CmpStr(a.description, b.description))

\* ModuleInfo
CmpModuleInfo(a, b, objects) ==
    Then(CmpPageInfo(a, b),
    Then(CmpHandlers(a.handlers, b.handlers, objects),
    Then(CmpPageInfos(a.sub_pages, b.sub_pages),
         CmpStrTuple(a.aliases, b.aliases))))

(***************************************************************************)
(* list.sort() for a list shorter than 64: the first run is counted (and   *)
(* reversed when it descends), the rest is inserted by binary search.  The *)
(* result is [list, err]; err when a comparison raised TypeError.          *)
(***************************************************************************)
RECURSIVE Reverse(_)
Reverse(s) == IF Len(s) = 0 THEN <<>> ELSE Append(Reverse(Tail(s)), s[1])

\* count_run: the length of the run that starts the list, n of it known
RECURSIVE CountRun(_, _, _, _)
CountRun(list, n, descending, objects) ==
    IF n >= Len(list) THEN [n |-> n, err |-> FALSE]
    ELSE LET c == CmpModuleInfo(list[n + 1], list[n], objects)
         IN  IF c = "err" THEN [n |-> n, err |-> TRUE]
             ELSE IF (c = "lt") = descending
                  THEN CountRun(list, n + 1, descending, objects)
                  ELSE [n |-> n, err |-> FALSE]

\* binarysort: where the pivot goes in list[l+1 .. r], that is sorted
RECURSIVE BinarySearch(_, _, _, _, _)
BinarySearch(list, pivot, l, r, objects) ==
    LET p == l + ((r - l) \div 2)
        c == CmpModuleInfo(pivot, list[p + 1], objects)
        l2 == IF c = "lt" THEN l ELSE p + 1
        r2 == IF c = "lt" THEN p ELSE r
    IN  IF c = "err" THEN [pos |-> l, err |-> TRUE]
        ELSE IF l2 < r2 THEN BinarySearch(list, pivot, l2, r2, objects)
        ELSE [pos |-> l2, err |-> FALSE]

\* binarysort: list[1 .. start] is sorted, the elements after it are inserted
RECURSIVE BinarySort(_, _, _)
BinarySort(list, start, objects) ==
    IF start >= Len(list) THEN [list |-> list, err |-> FALSE]
    ELSE LET pivot == list[start + 1]
             found == BinarySearch(list, pivot, 0, start, objects)
             moved == SubSeq(list, 1, found.pos) \o <<pivot>>
                      \o SubSeq(list, found.pos + 1, start)
                      \o SubSeq(list, start + 2, Len(list))
         IN  IF found.err THEN [list |-> list, err |-> TRUE]
             ELSE BinarySort(moved, start + 1, objects)

ListSort(list, objects) ==
    IF Len(list) < 2 THEN [list |-> list, err |-> FALSE]
    ELSE LET c == CmpModuleInfo(list[2], list[1], objects)
             run == CountRun(list, 2, c = "lt", objects)
             ordered == IF c = "lt"
                        THEN Reverse(SubSeq(list, 1, run.n))
                             \o SubSeq(list, run.n + 1, Len(list))
                        ELSE list
         IN  IF c = "err" \/ run.err THEN [list |-> list, err |-> TRUE]
             ELSE BinarySort(ordered, run.n, objects)

\* a sort_module_infos that moves the last info with path "/" to the top
MoveLastMainPage(list) ==
    IF \E i \in 1..Len(list) : list[i].path = P_root
    THEN LET i == CHOOSE k \in 1..Len(list) :
                      /\ list[k].path = P_root
                      /\ \A j \in (k + 1)..Len(list) : list[j].path # P_root
         IN  <<list[i]>> \o SubSeq(list, 1, i - 1)
             \o SubSeq(list, i + 1, Len(list))
    ELSE list

\* move the main page to the top: the first info with path "/"
MoveMainPage(list) ==
    IF \E i \in 1..Len(list) : list[i].path = P_root
    THEN LET i == CHOOSE k \in 1..Len(list) :
                      /\ list[k].path = P_root
                      /\ \A j \in 1..(k - 1) : list[j].path # P_root
         IN  <<list[i]>> \o SubSeq(list, 1, i - 1)
             \o SubSeq(list, i + 1, Len(list))
    ELSE list

\* sort_module_infos, then the tuple is returned to make_app
SortModuleInfos ==
    /\ pc = "sort"
    /\ ~ListSort(module_infos, heap).err
    /\ sorted_infos' = ListSort(module_infos, heap).list
    /\ module_infos' = MoveMainPage(sorted_infos')
    /\ pc' = "get_all_handlers"
    /\ UNCHANGED <<later, sys_modules, exception, inputs, IGNORED_MODULES, di, fi, loaded_modules,
                   errors,
                   heap, imported, invoked, log, exit_msg, hi, handlers, app>>

\* sort_module_infos raises the TypeError of a comparison
SortRaises ==
    /\ pc = "sort"
    /\ ListSort(module_infos, heap).err
    /\ module_infos' = ListSort(module_infos, heap).list
    /\ pc' = "raised"
    /\ exception' = <<"TypeError", "sort_module_infos">>
    /\ UNCHANGED <<later, sys_modules, inputs, IGNORED_MODULES, di, fi, loaded_modules, errors,
                   heap, imported, invoked, log, exit_msg, sorted_infos, hi,
                   handlers, app>>

(***************************************************************************)
(* get_all_handlers                                                        *)
(***************************************************************************)
\* static_file_handling.get_handlers(): the rules of the static files
StaticHandlers ==
    << <<P_static, "StaticFileHandler",
         DictLiteral("path" :> StrValue(S_static_dir))>>,
       <<P_favicon, "RedirectHandler",
         DictLiteral("url" :> StrValue(URL_favicon))>> >>

\* the dict of a handler of two elements with the info of the first module
DefaultSettingsOfFirstModule(module_info) ==
    ("default_title" :> BoolValue(FALSE))
    @@ ("default_description" :> BoolValue(FALSE))
    @@ ("module_info" :> InfoValue(module_infos[1]))

\* the dict a handler of two elements gets
DefaultSettings(module_info) ==
    ("default_title" :> BoolValue(FALSE))
    @@ ("default_description" :> BoolValue(FALSE))
    @@ ("module_info" :> InfoValue(module_info))

\* a store that drops the other keys of the dict
SetItemAlone(d, key, value) == key :> value

\* d[key] = value
SetItem(d, key, value) == (key :> value) @@ d

\* The inner loop over module_info.handlers from position i on: the handlers
\* to append, the heap after it, and whether handler[2]["module_info"] = ...
\* raised TypeError because handler[2] is None.
RECURSIVE AddHandlers(_, _, _, _)
AddHandlers(module_info, i, table, objects) ==
    IF i > Len(module_info.handlers)
    THEN [handlers |-> table, heap |-> objects, err |-> FALSE]
    ELSE LET handler == module_info.handlers[i]
         IN  IF ~IsModuleHandler(handler[2])
             THEN AddHandlers(module_info, i + 1, Append(table, handler),
                              objects)
             ELSE IF Len(handler) = 2
             THEN AddHandlers(
                      module_info, i + 1,
                      Append(table,
                             Append(handler, <<"dict", Len(objects) + 1>>)),
                      Append(objects, DefaultSettings(module_info)))
             ELSE IF handler[3] = None
             THEN [handlers |-> table, heap |-> objects, err |-> TRUE]
             ELSE AddHandlers(
                      module_info, i + 1, Append(table, handler),
                      [objects EXCEPT ![handler[3][2]] =
                           SetItem(@, "module_info", InfoValue(module_info))])

\* the redirect of an alias
AliasHandler(alias, path, address) ==
    <<RE_ignorecase \o alias \o RE_subpath, "RedirectHandler",
      <<"dict", address>>>>

\* the dict of a redirect that forgets the part after the alias
AliasSettingsWithoutSubpath(path) == "url" :> StrValue(path)

\* the dict of the redirect of an alias
AliasSettings(path) == "url" :> StrValue(path \o S_placeholder)

\* the loop over module_info.aliases from position i on
RECURSIVE AddAliases(_, _, _, _)
AddAliases(module_info, i, table, objects) ==
    IF module_info.path = None \/ i > Len(module_info.aliases)
    THEN [handlers |-> table, heap |-> objects, err |-> FALSE]
    ELSE AddAliases(
             module_info, i + 1,
             Append(table, AliasHandler(module_info.aliases[i],
                                        module_info.path, Len(objects) + 1)),
             Append(objects, AliasSettings(module_info.path)))

\* one pass of the loop that adds the aliases before the handlers
AddModuleAliasesFirst(module_info, table, objects) ==
    LET added == AddAliases(module_info, 1, table, objects)
    IN  AddHandlers(module_info, 1, added.handlers, added.heap)

\* one pass of the loop over module_infos
AddModule(module_info, table, objects) ==
    LET added == AddHandlers(module_info, 1, table, objects)
    IN  IF added.err THEN added
        ELSE AddAliases(module_info, 1, added.handlers, added.heap)

\* the two redirects in the other order
FallbackHandlersSwapped ==
    << <<RE_api, "RedirectHandler",
         DictLiteral("url" :> StrValue(URL_api_endpunkte))>>,
       <<RE_any_api, "RedirectHandler",
         DictLiteral("url" :> StrValue(URL_api_any))>> >>

\* the two redirects that make finding APIs easier
FallbackHandlers ==
    << <<RE_any_api, "RedirectHandler",
         DictLiteral("url" :> StrValue(URL_api_any))>>,
       <<RE_api, "RedirectHandler",
         DictLiteral("url" :> StrValue(URL_api_endpunkte))>> >>

build_frame ==
    <<inputs, IGNORED_MODULES, di, fi, module_infos, loaded_modules, errors,
      imported, invoked, exit_msg, sorted_infos>>

\* handlers = static_file_handling.get_handlers()
GetStaticHandlers ==
    /\ pc = "get_all_handlers"
    /\ LET made == AllocateHandlers(StaticHandlers, heap)
       IN  /\ handlers' = made.rules
           /\ heap' = made.heap
    /\ hi' = 1
    /\ pc' = "build"
    /\ UNCHANGED <<later, sys_modules, exception, build_frame, log, app>>

\* the handlers and the aliases of one module info are added
AddModuleHandlers ==
    /\ pc = "build"
    /\ hi <= Len(module_infos)
    /\ LET added == AddModule(module_infos[hi], handlers, heap)
       IN  /\ ~added.err
           /\ handlers' = added.handlers
           /\ heap' = added.heap
    /\ hi' = hi + 1
    /\ UNCHANGED <<later, sys_modules, exception, build_frame, pc, log, app>>

\* a handler of a module info has None as settings: TypeError
AddModuleRaises ==
    /\ pc = "build"
    /\ hi <= Len(module_infos)
    /\ LET added == AddModule(module_infos[hi], handlers, heap)
       IN  /\ added.err
           /\ handlers' = added.handlers
           /\ heap' = added.heap
    /\ pc' = "raised"
    /\ exception' = <<"TypeError", "get_all_handlers">>
    /\ UNCHANGED <<later, sys_modules, build_frame, hi, log, app>>

\* the record of the debug message about the handlers
HandlersRecord(table) ==
    [level |-> "DEBUG", msg |-> <<"loaded %d handlers: %s">>,
     args |-> <<Len(table), table>>]

\* the two redirects are appended and the list is returned
AddFallbackHandlers ==
    /\ pc = "build"
    /\ hi > Len(module_infos)
    /\ LET made == AllocateHandlers(FallbackHandlers, heap)
       IN  /\ handlers' = handlers \o made.rules
           /\ heap' = made.heap
           /\ log' = IF dev_mode
                     THEN Append(log, HandlersRecord(handlers \o made.rules))
                     ELSE log
    /\ pc' = "make_app"
    /\ UNCHANGED <<later, sys_modules, exception, build_frame, hi, app>>

\* make_app: Application(handlers, MODULE_INFOS=module_infos, ...)
MakeApplication ==
    /\ pc = "make_app"
    /\ app' = <<"Application",
                [handlers |-> handlers, MODULE_INFOS |-> module_infos,
                 HANDLERS |-> handlers, debug |-> dev_mode]>>
    /\ pc' = "done"
    /\ UNCHANGED <<later, sys_modules, exception, build_frame, heap, log, hi, handlers>>

(***************************************************************************)
(* The patterns of the rules: regular expressions of Python's re, as far   *)
(* as the rules use them, matched as re matches them (the alternatives in  *)
(* their order, the repetitions greedy, the first way that succeeds wins)  *)
(***************************************************************************)
\* c.lower() of every ASCII character
LowerCase ==
    [c \in Range(Ascii) |->
         IF Ord(c) \in 65..90 THEN Ascii[Ord(c) - 31 + 32] ELSE c]

Lower(c) == LowerCase[c]

\* whether the pattern character (or an element of a set) c is the
\* character x of the string, with or without re.IGNORECASE
CharEq(c, x, ignorecase) ==
    c = x \/ (ignorecase /\ Lower(c) = Lower(x))

\* the characters from lo to hi of a set like [0-9/]
CharRange(first, last) ==
    { Ascii[k] : k \in (Ord(first) - 31)..(Ord(last) - 31) }

\* the members of a set, from the position after "[" to the "]"
RECURSIVE ParseSet(_, _, _)
ParseSet(p, i, members) ==
    IF p[i] = "]" THEN [members |-> members, next |-> i + 1]
    ELSE IF i + 2 <= Len(p) /\ p[i + 1] = "-" /\ p[i + 2] # "]"
    THEN ParseSet(p, i + 3, members \cup CharRange(p[i], p[i + 2]))
    ELSE ParseSet(p, i + 1, members \cup {p[i]})

\* The parser: a node is <<"lit", c>>, <<"any">>, <<"set", members>>,
\* <<"end">>, <<"group", number, node>>, <<"star", node>>, <<"plus", node>>,
\* <<"opt", node>>, <<"cat", nodes>> or <<"alt", nodes>>; groups counts
\* the groups opened so far.
RECURSIVE ParseAlt(_, _, _)
RECURSIVE ParseAltRest(_, _, _, _)
RECURSIVE ParseCat(_, _, _, _)
RECURSIVE ParseAtom(_, _, _)

\* the group whose inside is parsed, the set whose members are parsed
GroupAtom(number, inner) ==
    [node |-> <<"group", number, inner.node>>, next |-> inner.next + 1,
     groups |-> inner.groups]

SetAtom(set, groups) ==
    [node |-> <<"set", set.members>>, next |-> set.next, groups |-> groups]

ParseAtom(p, i, groups) ==
    IF p[i] = "("
    THEN GroupAtom(groups + 1, ParseAlt(p, i + 1, groups + 1))
    ELSE IF p[i] = "["
    THEN SetAtom(ParseSet(p, i + 1, {}), groups)
    ELSE IF p[i] = "."
    THEN [node |-> <<"any">>, next |-> i + 1, groups |-> groups]
    ELSE IF p[i] = "$"
    THEN [node |-> <<"end">>, next |-> i + 1, groups |-> groups]
    ELSE IF p[i] = "REVERSE SOLIDUS"
    THEN [node |-> <<"lit", p[i + 1]>>, next |-> i + 2, groups |-> groups]
    ELSE [node |-> <<"lit", p[i]>>, next |-> i + 1, groups |-> groups]

\* the atom with the quantifier q that follows it, if one does
Quantified(atom, q) ==
    [node |-> IF q = "*" THEN <<"star", atom.node>>
              ELSE IF q = "+" THEN <<"plus", atom.node>>
              ELSE IF q = "?" THEN <<"opt", atom.node>>
              ELSE atom.node,
     next |-> IF q \in {"*", "+", "?"} THEN atom.next + 1 ELSE atom.next,
     groups |-> atom.groups]

\* the character after an atom, "" at the end of the pattern
Quantifier(p, atom) == IF atom.next <= Len(p) THEN p[atom.next] ELSE ""

QuantifiedAtom(p, atom) == Quantified(atom, Quantifier(p, atom))

\* the rest of a sequence after one more item of it
RECURSIVE ParseCatAfter(_, _, _)
ParseCatAfter(p, item, nodes) ==
    ParseCat(p, item.next, item.groups, Append(nodes, item.node))

ParseCat(p, i, groups, nodes) ==
    IF i > Len(p) \/ p[i] \in {"|", ")"}
    THEN [node |-> <<"cat", nodes>>, next |-> i, groups |-> groups]
    ELSE ParseCatAfter(p, QuantifiedAtom(p, ParseAtom(p, i, groups)), nodes)

\* the rest of the alternatives after one more branch
RECURSIVE ParseAltAfter(_, _, _)
ParseAltAfter(p, branch, nodes) ==
    ParseAltRest(p, branch.next, branch.groups, Append(nodes, branch.node))

ParseAltRest(p, i, groups, nodes) ==
    IF i <= Len(p) /\ p[i] = "|"
    THEN ParseAltAfter(p, ParseCat(p, i + 1, groups, <<>>), nodes)
    ELSE [node |-> <<"alt", nodes>>, next |-> i, groups |-> groups]

ParseAlt(p, i, groups) ==
    ParseAltAfter(p, ParseCat(p, i, groups, <<>>), <<>>)

\* re.compile(pattern): the flag of a leading (?i), the node, the groups
Compiled(ignorecase, parsed) ==
    [ignorecase |-> ignorecase, node |-> parsed.node,
     groups |-> parsed.groups]

ReCompile(pattern) ==
    IF StartsWith(pattern, RE_ignorecase)
    THEN Compiled(TRUE,
                  ParseAlt(SubSeq(pattern, Len(RE_ignorecase) + 1,
                                  Len(pattern)), 1, 0))
    ELSE Compiled(FALSE, ParseAlt(pattern, 1, 0))

\* The matcher: every way a node matches s from pos on, in the order re
\* tries them, each as <<the position after it, the groups>>.
RECURSIVE MatchNode(_, _, _, _, _)
RECURSIVE MatchSeq(_, _, _, _, _, _)
RECURSIVE MatchRest(_, _, _, _, _, _)
RECURSIVE MatchAlt(_, _, _, _, _, _)
RECURSIVE MatchStar(_, _, _, _, _)
RECURSIVE MatchMore(_, _, _, _, _, _)

\* the ways of a group: the ways of its inside, each with the group set
\* to what the inside took
Capture(ways, number, s, pos) ==
    [j \in 1..Len(ways) |->
         <<ways[j][1],
           [ways[j][2] EXCEPT ![number] =
                <<"str", SubSeq(s, pos, ways[j][1] - 1)>>]>>]

MatchSeq(nodes, k, s, pos, caps, ic) ==
    IF k > Len(nodes) THEN << <<pos, caps>> >>
    ELSE MatchRest(MatchNode(nodes[k], s, pos, caps, ic), 1, nodes, k, s, ic)

MatchRest(ways, j, nodes, k, s, ic) ==
    IF j > Len(ways) THEN <<>>
    ELSE MatchSeq(nodes, k + 1, s, ways[j][1], ways[j][2], ic)
         \o MatchRest(ways, j + 1, nodes, k, s, ic)

MatchAlt(nodes, k, s, pos, caps, ic) ==
    IF k > Len(nodes) THEN <<>>
    ELSE MatchNode(nodes[k], s, pos, caps, ic)
         \o MatchAlt(nodes, k + 1, s, pos, caps, ic)

MatchStar(node, s, pos, caps, ic) ==
    MatchMore(MatchNode(node, s, pos, caps, ic), 1, node, s, pos, ic)
    \o << <<pos, caps>> >>

MatchMore(ways, j, node, s, pos, ic) ==
    IF j > Len(ways) THEN <<>>
    ELSE (IF ways[j][1] > pos
          THEN MatchStar(node, s, ways[j][1], ways[j][2], ic)
          ELSE <<>>)
         \o MatchMore(ways, j + 1, node, s, pos, ic)

MatchNode(node, s, pos, caps, ic) ==
    CASE node[1] = "lit" ->
             IF pos <= Len(s) /\ CharEq(node[2], s[pos], ic)
             THEN << <<pos + 1, caps>> >> ELSE <<>>
      [] node[1] = "any" ->
             IF pos <= Len(s) /\ s[pos] # "\n"
             THEN << <<pos + 1, caps>> >> ELSE <<>>
      [] node[1] = "set" ->
             IF pos <= Len(s) /\ \E c \in node[2] : CharEq(c, s[pos], ic)
             THEN << <<pos + 1, caps>> >> ELSE <<>>
      [] node[1] = "end" ->
             IF pos = Len(s) + 1 \/ (pos = Len(s) /\ s[pos] = "\n")
             THEN << <<pos, caps>> >> ELSE <<>>
      [] node[1] = "group" ->
             Capture(MatchNode(node[3], s, pos, caps, ic), node[2], s, pos)
      [] node[1] = "star" -> MatchStar(node[2], s, pos, caps, ic)
      [] node[1] = "plus" ->
             MatchSeq(<<node[2], <<"star", node[2]>>>>, 1, s, pos, caps, ic)
      [] node[1] = "opt" ->
             MatchNode(node[2], s, pos, caps, ic) \o << <<pos, caps>> >>
      [] node[1] = "cat" -> MatchSeq(node[2], 1, s, pos, caps, ic)
      [] node[1] = "alt" -> MatchAlt(node[2], 1, s, pos, caps, ic)

\* regex.match(s): None, or the groups of the match (None for a group that
\* took no part in it)
FirstWay(ways) == IF Len(ways) = 0 THEN None ELSE <<"Match", ways[1][2]>>

ReMatch(regex, s) ==
    FirstWay(MatchNode(regex.node, s, 1, [g \in 1..regex.groups |-> None],
                       regex.ignorecase))

(***************************************************************************)
(* The server: tornado takes the first rule of the table whose pattern,    *)
(* with "$" at its end, matches the path of the request                    *)
(***************************************************************************)
\* str(arg) of an argument of str.format
StrOf(arg) == IF arg = None THEN <<"N", "o", "n", "e">> ELSE arg[2]

\* whether a str has the replacement field {0}
RECURSIVE HasPlaceholder(_)
HasPlaceholder(url) ==
    /\ Len(url) > 0
    /\ StartsWith(url, S_placeholder) \/ HasPlaceholder(Tail(url))

\* url.format(*args) for a url whose only replacement field is {0}
RECURSIVE Format(_, _)
Format(url, args) ==
    IF Len(url) = 0 THEN <<>>
    ELSE IF StartsWith(url, S_placeholder)
    THEN StrOf(args[1])
         \o Format(SubSeq(url, Len(S_placeholder) + 1, Len(url)), args)
    ELSE <<url[1]>> \o Format(Tail(url), args)

\* the regex tornado compiles for the pattern of a rule
PathRegex(pattern) ==
    ReCompile(IF EndsWith(pattern, <<"$">>) THEN pattern
              ELSE pattern \o <<"$">>)

\* the position of the first rule from i on that matches, 0 if none does
RECURSIVE FindRule(_, _, _)
FindRule(table, i, path) ==
    IF i > Len(table) THEN 0
    ELSE IF ReMatch(PathRegex(table[i][1]), path) # None THEN i
    ELSE FindRule(table, i + 1, path)

\* What the application answers: the default handler NotFound, the redirect
\* of a RedirectHandler to url.format(*groups), or the handler of the rule
\* with the groups as arguments.
Redirect(url, args) ==
    IF HasPlaceholder(url) /\ Len(args) = 0 THEN <<"IndexError">>
    ELSE <<"redirect", Format(url, args)>>

Execute(rule, objects, args) ==
    IF rule[2] = "RedirectHandler"
    THEN Redirect(objects[rule[3][2]]["url"][2], args)
    ELSE <<"handler", rule[2], args>>

Route(table, objects, path, i) ==
    IF i = 0 THEN <<"NotFound">>
    ELSE Execute(table[i], objects,
                 ReMatch(PathRegex(table[i][1]), path)[2])

Respond(table, objects, path) ==
    Route(table, objects, path, FindRule(table, 1, path))

\* the paths of the requests
RequestPaths ==
    UNION { { alias, alias \o <<"/">>, alias \o <<"/", "a", "B">>,
              alias \o <<"x">> } : alias \in {P_z, P_t, P_x} }
    \cup { <<"/", "Z">>,
           <<"/", "Z", "/", "a", "B">>,
           <<"/", "T", "/">>,
           <<"/", "a", "p", "i">>,
           <<"/", "A", "P", "I", "/">>,
           <<"/", "z", "/", "a", "p", "i">>,
           <<"/", "a", "p", "i", "/", "A", "P", "I">>,
           <<"/", "a", "p", "i", "/", "a", "p", "i">>,
           <<"/", "z", "i", "t", "a", "t", "e">>,
           <<"/", "Z", "I", "T", "A", "T", "E">>,
           <<"/", "L", "O", "L", "W", "U", "T", "/", "1", "/", "2">>,
           <<"/", "s", "t", "a", "t", "i", "c", "/", "x">>,
           <<"/", "n", "o", "w", "h", "e", "r", "e">> }

\* A request comes in and is answered.  The answer depends on the table
\* and the path only, so one request is followed for each process start.
HandleRequest ==
    /\ pc = "listening"
    /\ request = None
    /\ \E path \in RequestPaths :
           /\ request' = path
           /\ response' = Respond(server[2].app[2].handlers, heap, path)
    /\ UNCHANGED <<inputs, IGNORED_MODULES, pc, di, fi, module_infos,
                   loaded_modules, errors, heap, imported, invoked, log,
                   exit_msg, sorted_infos, hi, handlers, exception, app,
                   sys_modules, passes, previous, server, parsing, timing>>

(***************************************************************************)
(* utils/data_parsing.py: the values and the types parse works on          *)
(***************************************************************************)
\* Python values: None, <<"bool", b>>, <<"str", s>>, and
IntValue(n) == <<"int", n>>
\* a float, as the number of its halves: 1.5 is FloatValue(3)
FloatValue(halves) == <<"float", halves>>
ListValue(items) == <<"list", items>>
TupleValue(items) == <<"tuple", items>>
\* a dict, as its items in insertion order: <<key, value>>, the keys str
Mapping(items) == <<"dict", items>>
\* an instance of a class, as the value of every parameter of __init__
Instance(class, fields) == <<"object", class, fields>>

\* a class, a parameterized generic like list[int], a union like int | None;
\* an annotation that is a str is a StrValue
Class(name) == <<"class", name>>
Generic(origin, args) == <<"generic", origin, args>>
UnionType(args) == <<"union", args>>

\* typing.get_origin(type_), None if there is none
get_origin(t) ==
    CASE t[1] = "generic" -> Class(t[2])
      [] t[1] = "union" -> Class("UnionType")
      [] OTHER -> None

\* typing.get_args(type_)
get_args(t) ==
    CASE t[1] = "generic" -> t[3]
      [] t[1] = "union" -> t[2]
      [] OTHER -> <<>>

\* isinstance(value, cls) for a class; bool is a subclass of int
IsInstanceOfClass(v, name) ==
    CASE name = "int" -> v[1] \in {"int", "bool"}
      [] name = "NoneType" -> v = None
      [] name \in {"bool", "str", "float", "list", "tuple", "dict"} ->
             v[1] = name
      [] OTHER -> v[1] = "object" /\ v[2] = name

\* isinstance(value, type_): "True", "False", or "TypeError" for a
\* parameterized generic, alone or in a union
IsInstance(v, t) ==
    CASE t[1] = "class" ->
             IF IsInstanceOfClass(v, t[2]) THEN "True" ELSE "False"
      [] t[1] = "union" ->
             IF \E k \in 1..Len(t[2]) : t[2][k][1] # "class"
             THEN "TypeError"
             ELSE IF \E k \in 1..Len(t[2]) : IsInstanceOfClass(v, t[2][k][2])
             THEN "True" ELSE "False"
      [] OTHER -> "TypeError"

\* the classes of the model that @dataclass made: eq without frozen leaves
\* their instances without a hash
Dataclasses == {"Person"}

\* cls.__qualname__
QualName(name) ==
    CASE name = "Person" -> <<"P", "e", "r", "s", "o", "n">>
      [] name = "Limits" -> <<"L", "i", "m", "i", "t", "s">>
      [] OTHER -> <<"O", "p", "t", "i", "o", "n", "s">>

\* hash(value) works: no list, no dict and no instance of a dataclass, and
\* none in a tuple
RECURSIVE Hashable(_)
Hashable(v) ==
    CASE v[1] \in {"list", "dict"} -> FALSE
      [] v[1] = "object" -> v[2] \notin Dataclasses
      [] v[1] = "tuple" -> \A k \in 1..Len(v[2]) : Hashable(v[2][k])
      [] OTHER -> TRUE

\* value == n for an int n: bools and floats are numbers too
EqualsInt(v, n) ==
    CASE v[1] = "int" -> v[2] = n
      [] v[1] = "bool" -> v[2] = (n = 1) /\ n \in {0, 1}
      [] v[1] = "float" -> v[2] = 2 * n
      [] OTHER -> FALSE

\* str(n) for an int
RECURSIVE IntToStr(_)
IntToStr(n) ==
    IF n < 0 THEN <<"-">> \o IntToStr(-n)
    ELSE IF n < 10 THEN <<Ascii[n + 17]>>
    ELSE IntToStr(n \div 10) \o <<Ascii[(n % 10) + 17]>>

\* repr(value) and str(value): they differ for a str only
RECURSIVE Repr(_)
RECURSIVE ReprItems(_, _)
RECURSIVE ReprPairs(_, _)
RECURSIVE ReprFields(_, _)

ReprItems(items, k) ==
    IF k > Len(items) THEN <<>>
    ELSE (IF k > 1 THEN <<",", " ">> ELSE <<>>) \o Repr(items[k])
         \o ReprItems(items, k + 1)

ReprPairs(items, k) ==
    IF k > Len(items) THEN <<>>
    ELSE (IF k > 1 THEN <<",", " ">> ELSE <<>>)
         \o Repr(<<"str", items[k][1]>>) \o <<":", " ">> \o Repr(items[k][2])
         \o ReprPairs(items, k + 1)

\* the fields in the __repr__ of a dataclass
ReprFields(items, k) ==
    IF k > Len(items) THEN <<>>
    ELSE (IF k > 1 THEN <<",", " ">> ELSE <<>>)
         \o items[k][1] \o <<"=">> \o Repr(items[k][2])
         \o ReprFields(items, k + 1)

Repr(v) ==
    CASE v = None -> <<"N", "o", "n", "e">>
      [] v[1] = "bool" -> IF v[2] THEN <<"T", "r", "u", "e">>
                          ELSE <<"F", "a", "l", "s", "e">>
      [] v[1] = "int" -> IntToStr(v[2])
      [] v[1] = "float" ->
             (IF v[2] < 0 THEN <<"-">> ELSE <<>>)
             \o IntToStr((IF v[2] < 0 THEN -v[2] ELSE v[2]) \div 2)
             \o (IF v[2] % 2 = 0 THEN <<".", "0">> ELSE <<".", "5">>)
      [] v[1] = "str" -> <<"'">> \o v[2] \o <<"'">>
      [] v[1] = "list" -> <<"[">> \o ReprItems(v[2], 1) \o <<"]">>
      [] v[1] = "tuple" ->
             <<"(">> \o ReprItems(v[2], 1)
             \o (IF Len(v[2]) = 1 THEN <<",">> ELSE <<>>) \o <<")">>
      [] v[1] = "dict" -> <<"{">> \o ReprPairs(v[2], 1) \o <<"}">>
      [] v[1] = "object" /\ v[2] \in Dataclasses ->
             QualName(v[2]) \o <<"(">> \o ReprFields(v[3], 1) \o <<")">>
      [] OTHER -> <<"<">> \o QualName(v[2]) \o <<">">>

Str(v) == IF v[1] = "str" THEN v[2] ELSE Repr(v)

\* the value of a digit in a base up to 16, 99 for any other character
DigitValue(c) ==
    IF Ord(c) \in 48..57 THEN Ord(c) - 48
    ELSE IF Ord(Lower(c)) \in 97..102 THEN Ord(Lower(c)) - 87
    ELSE 99

\* digits with single underscores between them, in the base: their value,
\* or -1 if the str is not of that form
RECURSIVE DigitsValue(_, _, _, _)
DigitsValue(s, k, base, sum) ==
    IF k > Len(s) THEN sum
    ELSE IF s[k] = "_"
    THEN IF k = 1 \/ k = Len(s) \/ s[k + 1] = "_" THEN -1
         ELSE DigitsValue(s, k + 1, base, sum)
    ELSE IF DigitValue(s[k]) >= base THEN -1
    ELSE DigitsValue(s, k + 1, base, sum * base + DigitValue(s[k]))

\* int(s, base=0) and int(s) (base 10) for a str: the int, or None for
\* ValueError
IntLiteral(s, base) ==
    LET stripped == Strip(s)
        signed == Len(stripped) > 0 /\ stripped[1] \in {"+", "-"}
        body == IF signed THEN Tail(stripped) ELSE stripped
        prefix == IF base = 0 /\ Len(body) >= 2 /\ body[1] = "0"
                  THEN Lower(body[2]) ELSE ""
        radix == CASE prefix = "x" -> 16
                   [] prefix = "o" -> 8
                   [] prefix = "b" -> 2
                   [] OTHER -> 10
        rest == IF radix = 10 THEN body ELSE SubSeq(body, 3, Len(body))
        digits == IF radix # 10 /\ Len(rest) > 1 /\ rest[1] = "_"
                  THEN Tail(rest) ELSE rest
        magnitude == IF Len(digits) = 0 THEN -1
                     ELSE DigitsValue(digits, 1, radix, 0)
    IN  IF magnitude < 0 THEN None
        ELSE IF base = 0 /\ radix = 10 /\ digits[1] = "0" /\ magnitude # 0
        THEN None
        ELSE IntValue(IF signed /\ stripped[1] = "-" THEN -magnitude
                      ELSE magnitude)

\* what a call ends with: the value it returns or the exception it raises
Return(v) == <<"return", v>>
Raise(exception_type, message) == <<"raise", exception_type, message>>

\* a parameter of a signature; a default or an annotation that is not
\* there is Parameter.empty
Empty == <<"empty">>
Parameter(name, kind, default, annotation) ==
    [name |-> name, kind |-> kind, default |-> default,
     annotation |-> annotation]

S_bool == <<"b", "o", "o", "l">>
S_int == <<"i", "n", "t">>
S_float == <<"f", "l", "o", "a", "t">>
S_list == <<"l", "i", "s", "t">>
S_self == <<"s", "e", "l", "f">>
S_name == <<"n", "a", "m", "e">>
S_age == <<"a", "g", "e">>
S_active == <<"a", "c", "t", "i", "v", "e">>
S_args == <<"a", "r", "g", "s">>
S_kwargs == <<"k", "w", "a", "r", "g", "s">>
S_a == <<"a">>
S_b == <<"b">>
S_c == <<"c">>
S_d == <<"d">>
S_count == <<"c", "o", "u", "n", "t">>
S_limit == <<"l", "i", "m", "i", "t">>
S_exact == <<"e", "x", "a", "c", "t">>

\* inspect.signature(type_.__init__).parameters of the classes of the
\* model: Person is a dataclass in a module with postponed annotations (the
\* annotations are str), Options has a keyword-only parameter and defaults,
\* Limits has defaults and no keyword-only parameter,
\* every other type has the __init__(self, /, *args, **kwargs) of object
Signature(t) ==
    CASE t = Class("Person") ->
             <<Parameter(S_self, "POSITIONAL_OR_KEYWORD", Empty, Empty),
               Parameter(S_name, "POSITIONAL_OR_KEYWORD", Empty,
                         StrValue(S_str)),
               Parameter(S_age, "POSITIONAL_OR_KEYWORD", Empty,
                         StrValue(S_int)),
               Parameter(S_active, "POSITIONAL_OR_KEYWORD", Empty,
                         StrValue(S_bool))>>
      [] t = Class("Options") ->
             <<Parameter(S_self, "POSITIONAL_OR_KEYWORD", Empty, Empty),
               Parameter(S_a, "POSITIONAL_OR_KEYWORD", Empty, Class("int")),
               Parameter(S_b, "POSITIONAL_OR_KEYWORD", StrValue(S_d), Empty),
               Parameter(S_c, "KEYWORD_ONLY", BoolValue(FALSE),
                         Class("bool"))>>
      [] t = Class("Limits") ->
             <<Parameter(S_self, "POSITIONAL_OR_KEYWORD", Empty, Empty),
               Parameter(S_count, "POSITIONAL_OR_KEYWORD", Empty,
                         Class("int")),
               Parameter(S_limit, "POSITIONAL_OR_KEYWORD", IntValue(3),
                         Class("int")),
               Parameter(S_exact, "POSITIONAL_OR_KEYWORD", BoolValue(FALSE),
                         Class("bool"))>>
      [] OTHER ->
             <<Parameter(S_self, "POSITIONAL_ONLY", Empty, Empty),
               Parameter(S_args, "VAR_POSITIONAL", Empty, Empty),
               Parameter(S_kwargs, "VAR_KEYWORD", Empty, Empty)>>

\* arg_name in data, data[arg_name]
HasKey(items, key) == \E k \in 1..Len(items) : items[k][1] = key
GetItem(items, key) ==
    items[CHOOSE k \in 1..Len(items) : items[k][1] = key][2]

\* an add that leaves kwargs as it is
PutItemNowhere(items, key, v) == items

\* kwargs[name] = value
PutItem(items, key, v) ==
    IF HasKey(items, key)
    THEN [k \in 1..Len(items) |->
              IF items[k][1] = key THEN <<key, v>> ELSE items[k]]
    ELSE Append(items, <<key, v>>)

\* s.lower()
StrLower(s) == [k \in 1..Len(s) |-> Lower(s[k])]

\* utils.str_to_bool(val, default); luck is what random.choice picks
str_to_bool(val, default, luck) ==
    LET lowered == StrLower(val)
    IN  IF lowered \in {<<"s", "u", "r", "e">>, <<"y">>, <<"y", "e", "s">>, <<"t">>, <<"t", "r", "u", "e">>, <<"o", "n">>, <<"1">>}
        THEN Return(BoolValue(TRUE))
        ELSE IF lowered \in {<<"n", "o", "p", "e">>, <<"n">>, <<"n", "o">>, <<"f">>, <<"f", "a", "l", "s", "e">>, <<"o", "f", "f">>, <<"0">>}
        THEN Return(BoolValue(FALSE))
        ELSE IF lowered \in {<<"m", "a", "y", "b", "e">>, <<"i", "d", "c">>}
        THEN Return(BoolValue(luck))
        ELSE IF default = None
        THEN Raise("ValueError", "invalid truth value")
        ELSE Return(default)

_parse_str(raw, is_strict) ==
    IF raw[1] = "str" THEN Return(raw)
    ELSE IF is_strict THEN Raise("ValueError", "is not str.")
    ELSE Return(StrValue(Str(raw)))

_parse_bool(raw, is_strict, luck) ==
    IF raw[1] = "bool" THEN Return(raw)
    ELSE IF is_strict THEN Raise("ValueError", "is not bool.")
    ELSE IF ~Hashable(raw) THEN Raise("TypeError", "unhashable type")
    ELSE IF EqualsInt(raw, 0) \/ EqualsInt(raw, 1)
    THEN Return(BoolValue(~EqualsInt(raw, 0)))
    ELSE IF raw[1] = "str" THEN str_to_bool(raw[2], None, luck)
    ELSE Raise("ValueError", "Cannot parse into bool.")

\* a _parse_int that takes no str
ParseIntWithoutLiterals(raw, is_strict) ==
    IF IsInstanceOfClass(raw, "int") THEN Return(raw)
    ELSE IF raw[1] = "float" /\ raw[2] % 2 = 0
    THEN Return(IntValue(raw[2] \div 2))
    ELSE IF is_strict THEN Raise("ValueError", "is not a number.")
    ELSE Raise("ValueError", "Cannot parse into int.")

_parse_int(raw, is_strict) ==
    IF IsInstanceOfClass(raw, "int") THEN Return(raw)
    ELSE IF raw[1] = "float" /\ raw[2] % 2 = 0
    THEN Return(IntValue(raw[2] \div 2))
    ELSE IF is_strict THEN Raise("ValueError", "is not a number.")
    ELSE IF raw[1] = "str"
    THEN IF IntLiteral(raw[2], 0) = None
         THEN Raise("ValueError", "invalid literal for int() with base 0")
         ELSE Return(IntLiteral(raw[2], 0))
    ELSE IF raw[1] = "bool" THEN Return(IntValue(IF raw[2] THEN 1 ELSE 0))
    ELSE Raise("ValueError", "Cannot parse into int.")

_parse_float(raw, is_strict) ==
    IF raw[1] = "float" THEN Return(raw)
    ELSE IF raw[1] = "int" THEN Return(FloatValue(2 * raw[2]))
    ELSE IF raw[1] = "bool" THEN Return(FloatValue(IF raw[2] THEN 2 ELSE 0))
    ELSE IF is_strict THEN Raise("ValueError", "is not a number.")
    ELSE IF raw[1] = "str"
    THEN IF IntLiteral(raw[2], 10) = None
         THEN Raise("ValueError", "invalid literal for int() with base 10")
         ELSE Return(IntLiteral(raw[2], 10))
    ELSE Raise("ValueError", "Cannot parse into int.")

\* type_(*args, **kwargs) for a class of the model: the instance, or the
\* TypeError of a call that does not fit the signature
Construct(t, args, kwargs) ==
    LET signature == Tail(Signature(t))
        positional == SelectSeq(signature,
                                LAMBDA q : q.kind = "POSITIONAL_OR_KEYWORD")
        named == SelectSeq(signature,
                           LAMBDA q : q.kind \in {"POSITIONAL_OR_KEYWORD",
                                                  "KEYWORD_ONLY"})
        given(q) ==
            \/ \E k \in 1..Len(positional) :
                   positional[k].name = q.name /\ k <= Len(args)
            \/ HasKey(kwargs, q.name)
        field(q) ==
            IF \E k \in 1..Len(positional) :
                   positional[k].name = q.name /\ k <= Len(args)
            THEN args[CHOOSE k \in 1..Len(positional) :
                          positional[k].name = q.name]
            ELSE IF HasKey(kwargs, q.name) THEN GetItem(kwargs, q.name)
            ELSE q.default
    IN  IF Len(args) > Len(positional)
        THEN Raise("TypeError", "takes fewer positional arguments")
        ELSE IF \E k \in 1..Len(args) : HasKey(kwargs, positional[k].name)
        THEN Raise("TypeError", "got multiple values for argument")
        ELSE IF \E k \in 1..Len(kwargs) :
                    \A j \in 1..Len(named) : named[j].name # kwargs[k][1]
        THEN Raise("TypeError", "got an unexpected keyword argument")
        ELSE IF \E k \in 1..Len(named) :
                    ~given(named[k]) /\ named[k].default = Empty
        THEN Raise("TypeError", "missing required argument")
        ELSE Return(Instance(t[2],
                             [k \in 1..Len(named) |->
                                  <<named[k].name, field(named[k])>>]))

RECURSIVE parse(_, _, _, _)
RECURSIVE _parse_items(_, _, _, _, _, _)
RECURSIVE _parse_parameters(_, _, _, _, _, _, _, _)

\* [parse(args[0], spam, strict=strict) for spam in data] from spam k on:
\* the first exception ends it
_parse_items(t, items, k, is_strict, luck, parsed) ==
    IF k > Len(items) THEN Return(ListValue(parsed))
    ELSE LET item == parse(t, items[k], is_strict, luck)
         IN  IF item[1] = "raise" THEN item
             ELSE _parse_items(t, items, k + 1, is_strict, luck,
                               Append(parsed, item[2]))

_parse_list(t, raw, is_strict, luck) ==
    LET args == get_args(t)
    IN  IF Len(args) # 1
        THEN Raise("ValueError", "should be list[...]")
        ELSE _parse_items(args[1], raw[2], 1, is_strict, luck, <<>>)

\* the loop of _parse_class over the parameters from parameter k on, with
\* args, kwargs and in_positional as the passes before left them: the
\* exception that ends it, or the args and kwargs of the call after it
_parse_parameters(t, k, items, is_strict, luck, args, kwargs, positional) ==
    IF k > Len(Signature(t)) THEN <<"call", args, kwargs>>
    ELSE LET param == Signature(t)[k]
             in_positional ==
                 positional \/ param.kind \in {"VAR_KEYWORD", "KEYWORD_ONLY"}
             parsed ==
                 IF ~HasKey(items, param.name) THEN Return(param.default)
                 ELSE IF param.annotation = Empty
                 THEN Return(GetItem(items, param.name))
                 ELSE parse(param.annotation, GetItem(items, param.name),
                            is_strict, luck)
         IN  IF ~HasKey(items, param.name) /\ param.default = Empty
             THEN Raise("ValueError", "Missing required argument")
             ELSE IF /\ HasKey(items, param.name)
                     /\ param.annotation = Empty
                     /\ is_strict
             THEN Raise("ValueError", "Missing type annotation for")
             ELSE IF parsed[1] = "raise" THEN parsed
             ELSE IF in_positional
             THEN _parse_parameters(t, k + 1, items, is_strict, luck,
                                    Append(args, parsed[2]), kwargs,
                                    in_positional)
             ELSE _parse_parameters(t, k + 1, items, is_strict, luck, args,
                                    PutItem(kwargs, param.name, parsed[2]),
                                    in_positional)

\* return type_(*args, **kwargs), if the loop got that far
Call(t, arguments) ==
    IF arguments[1] = "raise" THEN arguments
    ELSE Construct(t, arguments[2], arguments[3])

_parse_class(t, raw, is_strict, luck) ==
    Call(t, _parse_parameters(t, 2, raw[2], is_strict, luck, <<>>, <<>>,
                              FALSE))

\* possible.remove(None)
RemoveNone(possible) == SelectSeq(possible, LAMBDA q : q # None)

\* parse(type_, data, strict=strict)
parse(t, raw, is_strict, luck) ==
    LET is_union ==
            (IF get_origin(t) # None THEN get_origin(t) ELSE t)
                = Class("UnionType")
        possible == get_args(t)
        type1 == IF is_union THEN RemoveNone(possible)[1] ELSE t
        simple_type ==
            IF get_origin(type1) # None THEN get_origin(type1) ELSE type1
    IN  IF is_union /\ IsInstance(raw, t) = "TypeError"
        THEN Raise("TypeError",
                   "isinstance() argument 2 cannot be a parameterized generic")
        ELSE IF is_union /\ IsInstance(raw, t) = "True" THEN Return(raw)
        ELSE IF is_union /\ (Len(possible) # 2 \/ ~Contains(possible, None))
        THEN Raise("ValueError", "Cannot parse all Unions, only optionals.")
        ELSE IF /\ simple_type = Class("list") \/ simple_type = StrValue(S_list)
                /\ raw[1] = "list"
        THEN _parse_list(type1, raw, is_strict, luck)
        ELSE IF type1 = Class("bool") \/ type1 = StrValue(S_bool)
        THEN _parse_bool(raw, is_strict, luck)
        ELSE IF type1 = Class("str") \/ type1 = StrValue(S_str)
        THEN _parse_str(raw, is_strict)
        ELSE IF type1 = Class("int") \/ type1 = StrValue(S_int)
        THEN _parse_int(raw, is_strict)
        ELSE IF type1 = Class("float") \/ type1 = StrValue(S_float)
        THEN _parse_float(raw, is_strict)
        ELSE IF raw[1] = "dict" THEN _parse_class(type1, raw, is_strict, luck)
        ELSE Raise("ValueError", "Unable to parse")

\* a main that listens before the Application exists
ListenBeforeApplication ==
    /\ pc = "make_app"
    /\ server' = <<"HTTPServer", [app |-> app]>>
    /\ pc' = "listening"
    /\ UNCHANGED <<inputs, IGNORED_MODULES, di, fi, module_infos,
                   loaded_modules, errors, heap, imported, invoked, log,
                   exit_msg, sorted_infos, hi, handlers, exception, app,
                   sys_modules, passes, previous, request, response,
                   parsing, timing>>

\* main: server = app.listen(port, ...)
Listen ==
    /\ pc = "done"
    /\ server' = <<"HTTPServer", [app |-> app]>>
    /\ pc' = "listening"
    /\ UNCHANGED <<inputs, IGNORED_MODULES, di, fi, module_infos,
                   loaded_modules, errors, heap, imported, invoked, log,
                   exit_msg, sorted_infos, hi, handlers, exception, app,
                   sys_modules, passes, previous, request, response,
                   parsing, timing>>

(***************************************************************************)
(* The process                                                             *)
(***************************************************************************)
Next ==
    \/ ReadConfig
    \/ SkipDir
    \/ EnterDir
    \/ LeaveDir
    \/ SkipFile
    \/ ImportWithoutEntryPoint
    \/ ImportMisdeclared
    \/ ImportRaises
    \/ ImportWrongValue
    \/ ImportModuleInfo
    \/ EndScan
    \/ ExitOnErrors
    \/ LogErrors
    \/ LogSummary
    \/ SortModuleInfos
    \/ SortRaises
    \/ GetStaticHandlers
    \/ AddModuleHandlers
    \/ AddModuleRaises
    \/ AddFallbackHandlers
    \/ MakeApplication
    \/ Listen

Spec == Init /\ [][Next]_vars

(***************************************************************************)
(* A process that calls make_app more than once, as the fixture of the     *)
(* tests does for every test                                               *)
(***************************************************************************)
\* make_app is called again in the process: the modules stay imported, the
\* dicts of the call before stay on the heap, IGNORED_MODULES stays
MakeAppAgain ==
    /\ pc = "done"
    /\ server = None
    /\ passes < MaxPasses
    /\ passes' = passes + 1
    /\ previous' = <<"make_app",
                     [loaded_modules |-> loaded_modules,
                      module_infos |-> module_infos,
                      handlers |-> handlers, heap |-> heap]>>
    /\ pc' = "scan_dir"
    /\ di' = 1
    /\ fi' = 1
    /\ module_infos' = <<>>
    /\ loaded_modules' = <<>>
    /\ errors' = <<>>
    /\ imported' = <<>>
    /\ invoked' = <<>>
    /\ sorted_infos' = <<>>
    /\ hi' = 1
    /\ handlers' = <<>>
    /\ UNCHANGED <<inputs, IGNORED_MODULES, heap, log, exit_msg, exception,
                   app, sys_modules, server, request, response, parsing,
                   timing>>

NextPasses == Next \/ MakeAppAgain

SpecPasses == Init /\ [][NextPasses]_vars

(***************************************************************************)
(* A process start that is followed by requests                            *)
(***************************************************************************)
NextServe == Next \/ HandleRequest

SpecServe == Init /\ [][NextServe]_vars

(***************************************************************************)
(* Calls of parse: the type, the raw value and the mode are drawn from     *)
(* the sets below, which hold at most one str that str_to_bool answers     *)
(* with random.choice                                                      *)
(***************************************************************************)
PersonType == Class("Person")
OptionsType == Class("Options")
LimitsType == Class("Limits")

ParseTypes ==
    { Class("bool"), Class("str"), Class("int"), Class("float"),
      Class("list"), Generic("list", <<Class("int")>>),
      Generic("list", <<Class("bool")>>),
      Generic("list", <<Generic("list", <<Class("int")>>)>>),
      UnionType(<<Class("int"), Class("NoneType")>>),
      UnionType(<<Class("str"), Class("NoneType")>>),
      UnionType(<<Class("bool"), Class("NoneType")>>),
      UnionType(<<Class("int"), Class("str")>>),
      UnionType(<<Class("int"), Class("str"), Class("NoneType")>>),
      UnionType(<<Generic("list", <<Class("int")>>),
                  Class("NoneType")>>),
      UnionType(<<PersonType, Class("NoneType")>>),
      PersonType, OptionsType, LimitsType }

\* the raw mapping {"name": "a", "age": age, "active": active}
PersonData(age, active) ==
    Mapping(<<<<S_name, StrValue(S_a)>>, <<S_age, age>>,
              <<S_active, active>>>>)

ParseData ==
    { None, BoolValue(TRUE), BoolValue(FALSE),
      IntValue(0), IntValue(1), IntValue(2), IntValue(7), IntValue(-1),
      FloatValue(0), FloatValue(2), FloatValue(3), FloatValue(14),
      StrValue(<<>>), StrValue(<<"7">>), StrValue(<<"x">>), StrValue(<<"a">>),
      StrValue(<<"1">>), StrValue(<<"0">>), StrValue(<<"s", "u", "r", "e">>), StrValue(<<"S", "U", "R", "E">>),
      StrValue(<<"Y", "e", "s">>), StrValue(<<"o", "n">>), StrValue(<<"n", "o", "p", "e">>), StrValue(<<"o", "f", "f">>),
      StrValue(<<"m", "a", "y", "b", "e">>), StrValue(<<"i", "d", "c">>), StrValue(<<"0", "x", "1", "0">>), StrValue(<<"0", "7">>),
      StrValue(<<" ", "7", " ">>), StrValue(<<"1", ".", "5">>), StrValue(<<"T", "r", "u", "e">>),
      ListValue(<<>>),
      ListValue(<<StrValue(<<"1">>), StrValue(<<"x">>), StrValue(<<"3">>)>>),
      ListValue(<<StrValue(<<"1">>), StrValue(<<"0", "x", "1", "0">>), StrValue(<<"3">>)>>),
      ListValue(<<StrValue(<<"x">>), StrValue(<<"1">>)>>),
      ListValue(<<IntValue(1), IntValue(2)>>),
      ListValue(<<IntValue(1), StrValue(<<"2">>)>>),
      ListValue(<<BoolValue(TRUE), StrValue(<<"m", "a", "y", "b", "e">>), IntValue(0)>>),
      ListValue(<<StrValue(<<"s", "u", "r", "e">>), IntValue(2)>>),
      ListValue(<<ListValue(<<StrValue(<<"1">>)>>), ListValue(<<>>)>>),
      ListValue(<<ListValue(<<StrValue(<<"1">>)>>), IntValue(2)>>),
      TupleValue(<<>>), TupleValue(<<IntValue(1)>>),
      TupleValue(<<ListValue(<<>>)>>),
      Mapping(<<>>),
      PersonData(StrValue(<<"7">>), StrValue(<<"s", "u", "r", "e">>)),
      PersonData(IntValue(7), BoolValue(TRUE)),
      PersonData(StrValue(<<"x">>), StrValue(<<"s", "u", "r", "e">>)),
      PersonData(IntValue(7), StrValue(<<"m", "a", "y", "b", "e">>)),
      PersonData(IntValue(7), ListValue(<<>>)),
      Mapping(<<<<S_name, StrValue(S_a)>>, <<S_active, BoolValue(TRUE)>>>>),
      Mapping(<<<<S_age, IntValue(7)>>, <<S_active, StrValue(<<"n", "o", "p", "e">>)>>,
                <<S_name, IntValue(1)>>, <<S_d, IntValue(2)>>>>),
      Mapping(<<<<S_a, StrValue(<<"1">>)>>>>),
      Mapping(<<<<S_a, IntValue(1)>>, <<S_b, IntValue(2)>>>>),
      Mapping(<<<<S_a, IntValue(1)>>, <<S_c, StrValue(<<"y", "e", "s">>)>>>>),
      Mapping(<<<<S_c, BoolValue(TRUE)>>>>),
      Mapping(<<<<S_count, StrValue(<<"2">>)>>>>),
      Mapping(<<<<S_limit, StrValue(<<"0", "x", "1", "0">>)>>, <<S_count, IntValue(2)>>>>),
      Mapping(<<<<S_limit, IntValue(1)>>>>),
      Mapping(<<<<S_count, StrValue(<<"x">>)>>, <<S_limit, StrValue(<<"x">>)>>>>),
      Mapping(<<<<S_exact, ListValue(<<>>)>>, <<S_limit, StrValue(<<"x">>)>>,
                <<S_count, IntValue(1)>>>>),
      Mapping(<<<<S_count, IntValue(1)>>, <<S_exact, StrValue(<<"m", "a", "y", "b", "e">>)>>>>),
      Instance("Person", <<<<S_name, StrValue(S_a)>>, <<S_age, IntValue(1)>>,
                           <<S_active, BoolValue(TRUE)>>>>) }

\* no process start is going on: only the inputs of parse vary
InitParse ==
    /\ listing = <<>>
    /\ dev_mode = FALSE
    /\ config = <<>>
    /\ IGNORED_MODULES = BuiltinIgnoredModules
    /\ pc = "parse"
    /\ di = 1
    /\ fi = 1
    /\ module_infos = <<>>
    /\ loaded_modules = <<>>
    /\ errors = <<>>
    /\ heap = <<>>
    /\ imported = <<>>
    /\ invoked = <<>>
    /\ log = <<>>
    /\ exit_msg = None
    /\ sorted_infos = <<>>
    /\ hi = 1
    /\ handlers = <<>>
    /\ exception = <<>>
    /\ app = None
    /\ sys_modules = {}
    /\ passes = 1
    /\ previous = None
    /\ server = None
    /\ request = None
    /\ response = None
    /\ type_ \in ParseTypes
    /\ data \in ParseData
    /\ strict \in BOOLEAN
    /\ outcomes = <<>>
    /\ calls = <<>>
    /\ query = None
    /\ answer = None
    /\ NoTimer

\* parse goes to _parse_class with type_ and data themselves: type_ is none
\* of the types the branches before take, and data is a dict
ReachesParseClass(t, raw) ==
    /\ t[1] = "class"
    /\ t[2] \notin {"UnionType", "bool", "str", "int", "float"}
    /\ raw[1] = "dict"

\* the call the loop of _parse_class got to, None if it raised before
Reached(arguments) == IF arguments[1] = "raise" THEN None ELSE arguments

\* The call type_(*args, **kwargs) of _parse_class in parse(t, raw): None if
\* parse does not get to it.  No type of ParseTypes has a class inside a
\* list, and a union raises before it gets to the class, so the only
\* _parse_class is that of t itself.
ClassCall(t, raw, is_strict, luck) ==
    IF ~ReachesParseClass(t, raw) THEN None
    ELSE Reached(_parse_parameters(t, 2, raw[2], is_strict, luck, <<>>, <<>>,
                                   FALSE))

\* parse(type_, data, strict=strict) is called; luck is what random.choice
\* picks in this call if str_to_bool asks it
Parse ==
    /\ pc = "parse"
    /\ Len(outcomes) < MaxCalls
    /\ \E luck \in BOOLEAN :
           /\ outcomes' = Append(outcomes, parse(type_, data, strict, luck))
           /\ calls' = Append(calls, ClassCall(type_, data, strict, luck))
    /\ UNCHANGED <<inputs, IGNORED_MODULES, pc, di, fi, module_infos,
                   loaded_modules, errors, heap, imported, invoked, log,
                   exit_msg, sorted_infos, hi, handlers, exception, app,
                   sys_modules, passes, previous, server, request, response,
                   type_, data, strict, query, answer, timing>>

NextParse == Parse

SpecParse == InitParse /\ [][NextParse]_vars

(***************************************************************************)
(* A handler with the decorator parse_args(type_=type_) gets a request     *)
(***************************************************************************)
\* a bytes object, as its bytes; a byte 0xFF is in no UTF-8 text
Bytes(s) == <<"bytes", s>>

\* value.decode("UTF-8") works
Decodes(b) == \A k \in 1..Len(b[2]) : b[2][k] # "BYTE FF"

\* value.decode("UTF-8") of ASCII bytes
Decode(b) == StrValue(b[2])

\* the loop over self.request.arguments.items() from item k on: arguments
\* as the loop leaves it, or the UnicodeDecodeError that ends it
RECURSIVE LastValues(_, _, _)
LastValues(items, k, arguments) ==
    IF k > Len(items) THEN Return(Mapping(arguments))
    ELSE IF Len(items[k][2]) = 0 THEN LastValues(items, k + 1, arguments)
    ELSE IF ~Decodes(items[k][2][Len(items[k][2])])
    THEN Raise("UnicodeDecodeError", "invalid start byte")
    ELSE LastValues(items, k + 1,
                    PutItem(arguments, items[k][1],
                            Decode(items[k][2][Len(items[k][2])])))

\* raise HTTPError(400, reason=err.args[0])
HTTPError(status_code, reason) ==
    <<"raise", "HTTPError", status_code, reason>>

\* func(self, *args, **kwargs, **{name: _data}) of a func that returns what
\* it got as data
Func(_data) == Return(<<"func", _data>>)

\* the try statement of new_func and the call of func after it
AfterParse(parsed) ==
    IF parsed[1] = "raise" /\ parsed[2] = "ValueError"
    THEN HTTPError(400, parsed[3])
    ELSE IF parsed[1] = "raise" THEN parsed
    ELSE Func(parsed[2])

\* the types of the decorators
ArgsTypes ==
    { PersonType, LimitsType, OptionsType, Class("bool"),
      UnionType(<<PersonType, Class("NoneType")>>) }

\* one key of self.request.arguments with its values
Argument(key, values) == <<key, values>>

\* the arguments of the requests
Queries ==
    { <<>>,
      <<Argument(S_name, <<Bytes(<<"a">>)>>), Argument(S_age, <<Bytes(<<"7">>)>>),
        Argument(S_active, <<Bytes(<<"s", "u", "r", "e">>)>>)>>,
      <<Argument(S_name, <<Bytes(<<"b">>), Bytes(<<"a">>)>>),
        Argument(S_age, <<Bytes(<<"x">>), Bytes(<<"0", "x", "1", "0">>)>>),
        Argument(S_active, <<Bytes(<<"0">>)>>)>>,
      <<Argument(S_name, <<Bytes(<<"a">>)>>),
        Argument(S_age, <<Bytes(<<"7">>), Bytes(<<"x">>)>>),
        Argument(S_active, <<Bytes(<<"s", "u", "r", "e">>)>>)>>,
      <<Argument(S_name, <<Bytes(<<"a">>)>>), Argument(S_age, <<Bytes(<<"7">>)>>),
        Argument(S_active, <<>>)>>,
      <<Argument(S_name, <<Bytes(<<"a">>)>>), Argument(S_age, <<Bytes(<<"7">>)>>),
        Argument(S_active, <<Bytes(<<"p", "e", "r", "h", "a", "p", "s">>)>>)>>,
      <<Argument(S_name, <<Bytes(<<>>)>>), Argument(S_age, <<Bytes(<<"-", "1">>)>>),
        Argument(S_active, <<Bytes(<<"m", "a", "y", "b", "e">>)>>)>>,
      <<Argument(S_name, <<Bytes(<<"BYTE FF">>)>>),
        Argument(S_age, <<Bytes(<<"7">>)>>),
        Argument(S_active, <<Bytes(<<"s", "u", "r", "e">>)>>)>>,
      <<Argument(S_name, <<Bytes(<<"BYTE FF">>), Bytes(<<"a">>)>>),
        Argument(S_age, <<Bytes(<<"7">>)>>),
        Argument(S_active, <<Bytes(<<"o", "n">>)>>)>>,
      <<Argument(S_count, <<Bytes(<<"2">>)>>)>>,
      <<Argument(S_count, <<Bytes(<<"x">>)>>)>>,
      <<Argument(S_limit, <<Bytes(<<"1">>)>>)>>,
      <<Argument(S_limit, <<Bytes(<<"0", "b", "1", "1">>)>>),
        Argument(S_count, <<Bytes(<<"2">>)>>)>>,
      <<Argument(S_count, <<Bytes(<<"2">>)>>),
        Argument(S_exact, <<Bytes(<<"Y", "E", "S">>)>>)>>,
      <<Argument(S_count, <<Bytes(<<"2">>)>>), Argument(S_exact, <<Bytes(<<"2">>)>>),
        Argument(S_d, <<Bytes(<<"1">>)>>)>>,
      <<Argument(S_a, <<Bytes(<<"1">>)>>)>>,
      <<Argument(S_a, <<Bytes(<<"x">>)>>)>>,
      <<Argument(S_a, <<Bytes(<<"1">>)>>), Argument(S_c, <<Bytes(<<"y", "e", "s">>)>>)>>,
      <<Argument(S_c, <<Bytes(<<"y", "e", "s">>)>>)>> }

\* no process start is going on: only the decorator and the request vary
InitArgs ==
    /\ listing = <<>>
    /\ dev_mode = FALSE
    /\ config = <<>>
    /\ IGNORED_MODULES = BuiltinIgnoredModules
    /\ pc = "parse_args"
    /\ di = 1
    /\ fi = 1
    /\ module_infos = <<>>
    /\ loaded_modules = <<>>
    /\ errors = <<>>
    /\ heap = <<>>
    /\ imported = <<>>
    /\ invoked = <<>>
    /\ log = <<>>
    /\ exit_msg = None
    /\ sorted_infos = <<>>
    /\ hi = 1
    /\ handlers = <<>>
    /\ exception = <<>>
    /\ app = None
    /\ sys_modules = {}
    /\ passes = 1
    /\ previous = None
    /\ server = None
    /\ request = None
    /\ response = None
    /\ type_ \in ArgsTypes
    /\ data = None
    /\ strict = FALSE
    /\ outcomes = <<>>
    /\ calls = <<>>
    /\ query \in Queries
    /\ answer = None
    /\ NoTimer

NoProcess ==
    UNCHANGED <<inputs, IGNORED_MODULES, pc, di, fi, module_infos,
                loaded_modules, errors, heap, imported, invoked, log,
                exit_msg, sorted_infos, hi, handlers, exception, app,
                sys_modules, passes, previous, server, request, response,
                timing>>

\* new_func: a value of the request is no UTF-8 text, parse is not called
NewFuncDecodeError ==
    /\ pc = "parse_args"
    /\ answer = None
    /\ LastValues(query, 1, <<>>)[1] = "raise"
    /\ answer' = LastValues(query, 1, <<>>)
    /\ NoProcess
    /\ UNCHANGED <<type_, data, strict, outcomes, calls, query>>

\* new_func: arguments is built, parse(type_, arguments, strict=False) is
\* called, and func is called or an exception leaves new_func
NewFunc ==
    /\ pc = "parse_args"
    /\ answer = None
    /\ LastValues(query, 1, <<>>)[1] = "return"
    /\ data' = LastValues(query, 1, <<>>)[2]
    /\ \E luck \in BOOLEAN :
           /\ outcomes' = Append(outcomes, parse(type_, data', FALSE, luck))
           /\ calls' = Append(calls, ClassCall(type_, data', FALSE, luck))
    /\ answer' = AfterParse(outcomes'[Len(outcomes')])
    /\ NoProcess
    /\ UNCHANGED <<type_, strict, query>>

NextArgs == NewFunc \/ NewFuncDecodeError

SpecArgs == InitArgs /\ [][NextArgs]_vars

(***************************************************************************)
(* Properties                                                              *)
(***************************************************************************)
\* whether the str whole contains the str part
IsInfix(part, whole) ==
    \E i \in 1..(Len(whole) - Len(part) + 1) :
        SubSeq(whole, i, i + Len(part) - 1) = part

\* the path of a file of a directory of DIR, as a message has to name it
UnitPath(dir_name, file_name) ==
    <<"DIR", "/">> \o dir_name \o <<"/">> \o file_name

\* the files of the listing, as <<position of the entry, position in it>>
Units ==
    UNION { { <<d, f>> : f \in 1..Len(listing[d].files) } :
            d \in 1..Len(listing) }

UnitDir(u) == listing[u[1]]
UnitFile(u) == listing[u[1]].files[u[2]]

\* the rules of discovery: the directory is a directory, is not private and
\* not blocked as "dir.*"; the file is "<stem>.py", is not private and
\* "dir.<stem>" is not blocked
IsCandidate(u) ==
    /\ UnitDir(u).isdir
    /\ Head(UnitDir(u).name) # "_"
    /\ UnitDir(u).name \o <<".", "*">> \notin Range(IGNORED_MODULES)
    /\ Head(UnitFile(u).name) # "_"
    /\ \E n \in 0..Len(UnitFile(u).name) :
           LET stem == SubSeq(UnitFile(u).name, 1, n)
           IN  /\ UnitFile(u).name = stem \o <<".", "p", "y">>
               /\ UnitDir(u).name \o <<".">> \o stem
                      \notin Range(IGNORED_MODULES)

\* the scan is past the file
Passed(u) ==
    /\ pc # "main"
    /\ \/ u[1] < di
       \/ u[1] = di /\ pc = "scan_file" /\ u[2] < fi

\* the file is among the logged ones
IsLogged(u, units) ==
    \E k \in 1..Len(units) :
        units[k].dir = UnitDir(u).name /\ units[k].file = UnitFile(u).name

\* get_module_infos is over: it returned, exited or raised
LoaderReturned ==
    pc \in {"get_all_handlers", "build", "make_app", "done", "listening"}
    \/ (pc = "raised" /\ exception[2] = "get_all_handlers")
LoaderExited == pc = "exited"
LoaderRaised ==
    pc = "raised" /\ exception[2] \in {"get_module_info", "sort_module_infos"}
ScanIsOver == di > Len(listing)

\* C1: every import of one discovery pass ends in one of two ways: the
\* module has a get_module_info annotated with ModuleInfo whose call yields
\* a ModuleInfo, and one descriptor and one loaded name are appended; or the
\* entry point is missing, misdeclared or yields another value, one message
\* naming the path of the file is appended, no descriptor is, and the scan
\* goes on with the next file.
C1_Accepted ==
    /\ potential_file.module.has_entry
    /\ potential_file.module.annotation = S_ModuleInfo
    /\ potential_file.module.call = "info"
    /\ Len(module_infos') = Len(module_infos) + 1
    /\ Len(loaded_modules') = Len(loaded_modules) + 1
    /\ errors' = errors

C1_Rejected ==
    /\ \/ ~potential_file.module.has_entry
       \/ potential_file.module.annotation # S_ModuleInfo
       \/ potential_file.module.call = "other"
    /\ Len(errors') = Len(errors) + 1
    /\ SubSeq(errors', 1, Len(errors)) = errors
    /\ IsInfix(UnitPath(potential_module.name, potential_file.name),
               errors'[Len(errors')])
    /\ module_infos' = module_infos
    /\ loaded_modules' = loaded_modules
    /\ pc' = "scan_file"
    /\ fi' = fi + 1

C1_TwoOutcomes ==
    [][Len(imported') > Len(imported) => (C1_Accepted \/ C1_Rejected)]_vars

\* C2: in production, when the files that are imported are three, one whose
\* get_module_info raises, one whose get_module_info is declared with another
\* return type and one that is well-formed, the exception does not leave
\* get_module_infos, and discovery ends with one descriptor and two messages.
C2_IsGood(u) ==
    /\ UnitFile(u).module.has_entry
    /\ UnitFile(u).module.annotation = S_ModuleInfo
    /\ UnitFile(u).module.call = "info"

C2_IsRaising(u) ==
    /\ UnitFile(u).module.has_entry
    /\ UnitFile(u).module.annotation = S_ModuleInfo
    /\ UnitFile(u).module.call = "raises"

C2_IsMisdeclared(u) ==
    /\ UnitFile(u).module.has_entry
    /\ UnitFile(u).module.annotation # S_ModuleInfo

C2_ThreeUnits ==
    LET candidates == { u \in Units : IsCandidate(u) }
    IN  /\ pc # "main"
        /\ ~dev_mode
        /\ Cardinality(candidates) = 3
        /\ \E u \in candidates : C2_IsGood(u)
        /\ \E u \in candidates : C2_IsRaising(u)
        /\ \E u \in candidates : C2_IsMisdeclared(u)

C2_RaisingUnitIsIsolated ==
    C2_ThreeUnits =>
        /\ ~LoaderRaised
        /\ ScanIsOver => Len(module_infos) = 1 /\ Len(errors) = 2

\* C3: in development mode get_module_infos exits if and only if a message
\* was recorded; it exits after the whole scan, with all messages joined,
\* and returns nothing; without a message it returns.
C3_DevModeExitsOnErrors ==
    dev_mode =>
        /\ LoaderExited =>
               /\ Len(errors) > 0
               /\ ScanIsOver
               /\ exit_msg = Join(<<"\n">>, errors)
               /\ Len(handlers) = 0
        /\ LoaderReturned => Len(errors) = 0
        /\ ~LoaderRaised

\* C4: in production get_module_infos returns, however many messages were
\* recorded, and the tuple holds one descriptor for each file that passed
\* the checks and none for the others.
C4_GoodUnits == { u \in Units : IsCandidate(u) /\ C2_IsGood(u) }

C4_ProductionReturnsLoaded ==
    ~dev_mode =>
        /\ ~LoaderExited
        /\ ~LoaderRaised
        /\ LoaderReturned =>
               /\ Len(module_infos) = Cardinality(C4_GoodUnits)
               /\ \A u \in C4_GoodUnits :
                      \E k \in 1..Len(module_infos) :
                          /\ module_infos[k].name
                                 = ReturnValue(UnitFile(u).module.returns).name
                          /\ module_infos[k].path
                                 = ReturnValue(UnitFile(u).module.returns).path

\* C5: a file is imported if and only if the rules of discovery make it a
\* candidate; a file they exclude is never imported, its get_module_info is
\* never called, and no message names it; every descriptor and every message
\* comes from an imported file.
C5_ImportedIffCandidate ==
    /\ \A u \in Units :
           /\ IsLogged(u, imported) => IsCandidate(u)
           /\ Passed(u) /\ IsCandidate(u) => IsLogged(u, imported)
           /\ ~IsCandidate(u) =>
                  /\ ~IsLogged(u, invoked)
                  /\ \A k \in 1..Len(errors) :
                         ~IsInfix(UnitPath(UnitDir(u).name, UnitFile(u).name),
                                  errors[k])
    /\ \A k \in 1..Len(imported) :
           imported[k].name
               = imported[k].dir \o <<".">>
                 \o SubSeq(imported[k].file, 1, Len(imported[k].file) - 3)
    /\ Len(module_infos) + Len(errors) <= Len(imported)
    /\ Len(invoked) <= Len(imported)

\* a pass is over that skipped a private directory or a blocked one, and a
\* file of the directory quotes, and that imported a file
C5_Witness ==
    /\ pc = "done"
    /\ \E u \in Units : Head(UnitDir(u).name) = "_"
                        \/ UnitDir(u).name = N_static
    /\ \E u \in Units : UnitDir(u).name = N_quotes /\ ~IsCandidate(u)
    /\ \E u \in Units : IsCandidate(u) /\ IsLogged(u, imported)

\* the permutations of 1..n
IndexPermutations(n) ==
    { f \in [1..n -> 1..n] : \A i, j \in 1..n : i # j => f[i] # f[j] }

\* the order of the key (name, description)
KeyCmp(a, b) ==
    Then(CmpStr(a.name, b.name), CmpStr(a.description, b.description))

\* list.sort() returned in this step
SortReturns == pc = "sort" /\ pc' = "get_all_handlers"

\* C6 as claimed: sort_module_infos orders the descriptors by (name,
\* description) ascending and is stable on that key: descriptors of equal
\* name and description keep their input order, whatever their other fields.
C6_StableOnNameAndDescription ==
    [][SortReturns =>
          \E f \in IndexPermutations(Len(module_infos)) :
              /\ Len(sorted_infos') = Len(module_infos)
              /\ \A i \in 1..Len(module_infos) :
                     sorted_infos'[i] = module_infos[f[i]]
              /\ \A i, j \in 1..Len(module_infos) :
                     i < j =>
                         /\ KeyCmp(sorted_infos'[i], sorted_infos'[j]) # "gt"
                         /\ KeyCmp(sorted_infos'[i], sorted_infos'[j]) = "eq"
                                => f[i] < f[j]]_vars

\* C6 as amended: when list.sort() returns, the result is a permutation of
\* the input in ascending order of (name, description), and descriptors of
\* equal name and description are in the order of their paths, not in their
\* input order; list.sort() raises only when two descriptors have the same
\* name and description.
C6_OrderedByAllFields ==
    [][/\ SortReturns =>
              /\ \E f \in IndexPermutations(Len(module_infos)) :
                     /\ Len(sorted_infos') = Len(module_infos)
                     /\ \A i \in 1..Len(module_infos) :
                            sorted_infos'[i] = module_infos[f[i]]
              /\ \A i, j \in 1..Len(sorted_infos') :
                     i < j =>
                         /\ KeyCmp(sorted_infos'[i], sorted_infos'[j]) # "gt"
                         /\ /\ KeyCmp(sorted_infos'[i], sorted_infos'[j]) = "eq"
                            /\ sorted_infos'[i].path # sorted_infos'[j].path
                            => /\ sorted_infos'[i].path # None
                               /\ sorted_infos'[j].path # None
                               /\ CmpStr(sorted_infos'[i].path,
                                         sorted_infos'[j].path) = "lt"
       /\ pc = "sort" /\ pc' = "raised" =>
              \E i, j \in 1..Len(module_infos) :
                  i # j /\ KeyCmp(module_infos[i], module_infos[j]) = "eq"]_vars

\* lolwut.py was loaded before twin.py, both have the same name and the same
\* description, and the sort put the info of twin.py first
C6_Witness ==
    /\ pc = "get_all_handlers"
    /\ Len(sorted_infos) >= 2
    /\ loaded_modules[1] = N_lolwut \o <<".">> \o N_lolwut
    /\ KeyCmp(sorted_infos[1], sorted_infos[2]) = "eq"
    /\ sorted_infos[1].path = P_root
    /\ sorted_infos[2].path = P_lolwut

\* C7: when exactly one descriptor has the path "/", sort_module_infos puts
\* it at index 0 whatever its name and description, and the result is a
\* permutation of the input.
C7_MainPageFirst ==
    [][/\ pc = "sort"
       /\ Cardinality({ i \in 1..Len(module_infos) :
                            module_infos[i].path = <<"/">> }) = 1
       => /\ pc' = "get_all_handlers"
          /\ module_infos'[1].path = <<"/">>
          /\ \E f \in IndexPermutations(Len(module_infos)) :
                 /\ Len(module_infos') = Len(module_infos)
                 /\ \A i \in 1..Len(module_infos) :
                        module_infos'[i] = module_infos[f[i]]]_vars

\* get_all_handlers returned its list
TableReturned == pc \in {"make_app", "done", "listening"}

\* the pattern and the type of every handler of a list
RuleHeads(rules) == [i \in 1..Len(rules) |-> <<rules[i][1], rules[i][2]>>]

\* the heads of the redirects of the aliases of a descriptor
AliasHeads(info) ==
    IF info.path = None THEN <<>>
    ELSE [i \in 1..Len(info.aliases) |->
              <<<<"(", "?", "i", ")">> \o info.aliases[i]
                \o <<"(", "/", ".", "*", "|", ")">>, "RedirectHandler">>]

\* the heads of the static rules and of the two fallback rules
StaticHeads == RuleHeads(StaticHandlers)
FallbackHeads ==
    << <<RE_any_api, "RedirectHandler">>, <<RE_api, "RedirectHandler">> >>

RECURSIVE AllRuleHeads(_)
AllRuleHeads(infos) ==
    IF Len(infos) = 0 THEN <<>>
    ELSE RuleHeads(infos[1].handlers) \o AllRuleHeads(Tail(infos))

RECURSIVE AllAliasHeads(_)
AllAliasHeads(infos) ==
    IF Len(infos) = 0 THEN <<>>
    ELSE AliasHeads(infos[1]) \o AllAliasHeads(Tail(infos))

RECURSIVE RuleThenAliasHeads(_)
RuleThenAliasHeads(infos) ==
    IF Len(infos) = 0 THEN <<>>
    ELSE RuleHeads(infos[1].handlers) \o AliasHeads(infos[1])
         \o RuleThenAliasHeads(Tail(infos))

\* C8 as claimed: the table is the static rules, then the rules of every
\* descriptor in descriptor order, then all alias redirects, then the two
\* fallback rules; no alias redirect precedes a rule of a descriptor.
C8_AliasesAfterAllRules ==
    TableReturned =>
        RuleHeads(handlers)
            = StaticHeads \o AllRuleHeads(module_infos)
              \o AllAliasHeads(module_infos) \o FallbackHeads

\* C8 as amended: the table is the static rules, then for every descriptor
\* in descriptor order its rules followed by its own alias redirects, then
\* the two fallback rules; an alias redirect precedes the rules of the
\* descriptors after its own.
C8_AliasesAfterOwnRules ==
    TableReturned =>
        RuleHeads(handlers)
            = StaticHeads \o RuleThenAliasHeads(module_infos) \o FallbackHeads

\* a table whose first descriptor has an alias and whose second has a rule
C8_Witness ==
    /\ TableReturned
    /\ Len(module_infos) >= 2
    /\ Len(AliasHeads(module_infos[1])) > 0
    /\ Len(module_infos[2].handlers) > 0

\* C9: for every tuple of descriptors, the empty one too, the last two
\* entries of the returned table are the redirect of "(?i)/(.+)/api/?" to
\* "/api/{0}" and then the redirect of "(?i)/api/?" to "/api/endpunkte".
C9_FallbacksLast ==
    TableReturned =>
        LET n == Len(handlers)
        IN  /\ n >= 2
            /\ Len(handlers[n - 1]) = 3
            /\ handlers[n - 1][1]
                   = <<"(", "?", "i", ")", "/", "(", ".", "+", ")", "/",
                       "a", "p", "i", "/", "?">>
            /\ handlers[n - 1][2] = "RedirectHandler"
            /\ heap[handlers[n - 1][3][2]]
                   = ("url" :> <<"str", <<"/", "a", "p", "i", "/",
                                          "{", "0", "}">>>>)
            /\ Len(handlers[n]) = 3
            /\ handlers[n][1]
                   = <<"(", "?", "i", ")", "/", "a", "p", "i", "/", "?">>
            /\ handlers[n][2] = "RedirectHandler"
            /\ heap[handlers[n][3][2]]
                   = ("url" :> <<"str", <<"/", "a", "p", "i", "/", "e", "n",
                                          "d", "p", "u", "n", "k", "t", "e">>>>)

\* a table was returned for no descriptor at all
C9_Witness == TableReturned /\ Len(module_infos) = 0 /\ Len(handlers) >= 2

\* C10: every rule (pattern, H) of two elements of a descriptor d whose H is
\* a handler type of a module is in the table as (pattern, H, settings) with
\* settings = {default_title: False, default_description: False,
\* module_info: d}.
C10_TwoElementRules ==
    { <<k, i>> \in (1..Len(module_infos)) \X (1..Len(handlers)) :
          \E r \in Range(module_infos[k].handlers) :
              /\ Len(r) = 2
              /\ r[2] \in ModuleHandlers
              /\ Len(handlers[i]) = 3
              /\ handlers[i][1] = r[1]
              /\ handlers[i][2] = r[2] }

C10_DefaultSettingsAdded ==
    TableReturned =>
        /\ \A k \in 1..Len(module_infos) :
               \A r \in Range(module_infos[k].handlers) :
                   Len(r) = 2 /\ r[2] \in ModuleHandlers
                       => \E i \in 1..Len(handlers) :
                              <<k, i>> \in C10_TwoElementRules
        /\ \A e \in C10_TwoElementRules :
               LET settings == heap[handlers[e[2]][3][2]]
               IN  /\ DOMAIN settings = {"default_title",
                                         "default_description", "module_info"}
                   /\ settings["default_title"] = <<"bool", FALSE>>
                   /\ settings["default_description"] = <<"bool", FALSE>>
                   /\ settings["module_info"] = <<"info", module_infos[e[1]]>>

\* a table with the rules of two elements of two descriptors
C10_Witness ==
    /\ TableReturned
    /\ \E e1, e2 \in C10_TwoElementRules : e1[1] # e2[1]

\* the module rules of a descriptor that carry a dict as settings
RulesWithSettings(info) ==
    { r \in Range(info.handlers) :
          Len(r) >= 3 /\ r[2] \in ModuleHandlers /\ r[3] # None }

\* C11: get_all_handlers emits a module rule of a descriptor d that carries
\* a settings map with every key the map had before, each with the value it
\* had, and with module_info mapped to d; the pattern, the handler type and
\* the name of the rule are unchanged.
C11_SettingsKept ==
    [][pc = "build" /\ hi <= Len(module_infos) /\ pc' = "build" =>
           \A r \in RulesWithSettings(module_infos[hi]) :
               \E i \in (Len(handlers) + 1)..Len(handlers') :
                   LET emitted == handlers'[i]
                       before == heap[r[3][2]]
                       after == heap'[emitted[3][2]]
                   IN  /\ Len(emitted) = Len(r)
                       /\ emitted[1] = r[1]
                       /\ emitted[2] = r[2]
                       /\ Len(r) = 4 => emitted[4] = r[4]
                       /\ DOMAIN after = DOMAIN before \cup {"module_info"}
                       /\ \A key \in DOMAIN before \ {"module_info"} :
                              after[key] = before[key]
                       /\ after["module_info"]
                              = <<"info", module_infos[hi]>>]_vars

\* the table holds a module rule whose settings have the title the module
\* gave them and the module info
C11_Witness ==
    /\ TableReturned
    /\ \E i \in 1..Len(handlers) :
           /\ Len(handlers[i]) = 4
           /\ handlers[i][2] \in ModuleHandlers
           /\ DOMAIN heap[handlers[i][3][2]] = {"title", "module_info"}

\* a rule with the content of its settings in the place of the dict object
RuleValue(rule, objects) ==
    IF Len(rule) >= 3 /\ rule[3] # None
    THEN [rule EXCEPT ![3] = <<"dict", objects[rule[3][2]]>>]
    ELSE rule

\* a descriptor with the content of every settings map its handlers reach
DescriptorValue(info, objects) ==
    [info EXCEPT !.handlers = [i \in 1..Len(info.handlers) |->
                                   RuleValue(info.handlers[i], objects)]]

\* get_all_handlers is running
BuildingTable == pc \in {"get_all_handlers", "build"}

\* C13: get_all_handlers leaves every descriptor as it was before the call:
\* its handlers with the contents of every settings map they reach, its
\* sub-pages, its aliases and its page fields.
C13_DescriptorsUnchanged ==
    [][BuildingTable =>
           /\ Len(module_infos') = Len(module_infos)
           /\ \A k \in 1..Len(module_infos) :
                  DescriptorValue(module_infos'[k], heap')
                      = DescriptorValue(module_infos[k], heap)]_vars

\* C14: get_all_handlers never raises, whatever the descriptors the loader
\* returned: rules of two, three or four elements, settings present or None.
C14_BuilderNeverRaises ==
    [][BuildingTable => pc' # "raised"]_vars

\* a dict with a mark in the place of every ModuleInfo it holds
FlatDict(d) ==
    [key \in DOMAIN d |-> IF d[key][1] = "info" THEN <<"info">> ELSE d[key]]

\* a descriptor with the content of its settings maps, marks in them
FlatInfo(info, objects) ==
    [info EXCEPT !.handlers =
         [i \in 1..Len(info.handlers) |->
              LET rule == info.handlers[i]
              IN  IF Len(rule) >= 3 /\ rule[3] # None
                  THEN [rule EXCEPT ![3] =
                            <<"dict", FlatDict(objects[rule[3][2]])>>]
                  ELSE rule]]

\* the descriptors by value
InfosValue(infos, objects) ==
    [k \in 1..Len(infos) |-> FlatInfo(infos[k], objects)]

\* the routing table by value: every dict by its content, every ModuleInfo
\* in it by its value
TableValue(table, objects) ==
    [i \in 1..Len(table) |->
         LET rule == table[i]
         IN  IF Len(rule) >= 3 /\ rule[3] # None
             THEN [rule EXCEPT ![3] =
                       LET d == objects[rule[3][2]]
                       IN  [key \in DOMAIN d |->
                                IF d[key][1] = "info"
                                THEN <<"info", FlatInfo(d[key][2], objects)>>
                                ELSE d[key]]]
             ELSE rule]

\* C15: for the same directory content and the same list of blocked
\* modules, a second call of make_app ends as the first did and gives the
\* same names of loaded modules, the same descriptors in the same order and
\* the same routing table, whatever the first call left behind.
C15_PassesAgree ==
    passes > 1 =>
        /\ pc \notin {"raised", "exited"}
        /\ pc = "done" =>
               /\ loaded_modules = previous[2].loaded_modules
               /\ InfosValue(module_infos, heap)
                      = InfosValue(previous[2].module_infos, previous[2].heap)
               /\ TableValue(handlers, heap)
                      = TableValue(previous[2].handlers, previous[2].heap)

\* a second call returned a table with the rules of two modules, one of
\* them with settings of its own, while the heap holds the dicts of both
\* calls
C15_Witness ==
    /\ passes = 2
    /\ pc = "done"
    /\ Len(loaded_modules) >= 2
    /\ handlers # previous[2].handlers
    /\ \E i \in 1..Len(handlers) :
           /\ Len(handlers[i]) >= 3
           /\ handlers[i][2] \in ModuleHandlers
           /\ "title" \in DOMAIN heap[handlers[i][3][2]]

\* C16: main merges the configured modules into IGNORED_MODULES before the
\* scan starts, the scan and the building of the table are over before the
\* Application is made, the Application holds the finished table, app.listen
\* comes after all of it, and no file is imported twice in a process start.
C16_DiscoveryBeforeListen ==
    /\ pc = "main" =>
           /\ imported = <<>>
           /\ sys_modules = {}
           /\ module_infos = <<>>
           /\ handlers = <<>>
    /\ pc # "main" =>
           IGNORED_MODULES
               = BuiltinIgnoredModules \o ConfigModules(SplitComma(config))
    /\ app # None =>
           /\ ScanIsOver
           /\ hi > Len(module_infos)
           /\ Len(handlers) >= 2
           /\ RuleHeads(SubSeq(handlers, Len(handlers) - 1, Len(handlers)))
                  = FallbackHeads
           /\ app[2].handlers = handlers
           /\ app[2].MODULE_INFOS = module_infos
    /\ server # None => app # None /\ server[2].app = app
    /\ passes = 1
    /\ \A i, j \in 1..Len(imported) : i # j => imported[i] # imported[j]

\* the server listens with the table of two loaded modules, and the config
\* named a module to ignore
C16_Witness ==
    /\ server # None
    /\ Len(config) > 0
    /\ Len(loaded_modules) >= 2
    /\ Len(app[2].handlers) > 4

\* the part of a request path after an alias, in any letter case, if the
\* path is the alias or the alias followed by "/" and anything; else None
SubpathAfter(alias, path) ==
    IF /\ Len(path) >= Len(alias)
       /\ \A i \in 1..Len(alias) : Lower(path[i]) = Lower(alias[i])
       /\ Len(path) > Len(alias) => path[Len(alias) + 1] = "/"
    THEN <<"str", SubSeq(path, Len(alias) + 1, Len(path))>>
    ELSE None

\* the rules of the table that are the redirect of an alias to a path
AliasRules(alias, path) ==
    { i \in 1..Len(handlers) :
          /\ handlers[i][1]
                 = <<"(", "?", "i", ")">> \o alias
                   \o <<"(", "/", ".", "*", "|", ")">>
          /\ handlers[i][2] = "RedirectHandler" }

\* C12: for every descriptor with a path p and every alias a of it the
\* table has exactly one redirect with the pattern "(?i)" + a + "(/.*|)",
\* and its target is p + "{0}"; a request for a, a + "/" or a + "/anything"
\* in any letter case is redirected to p, p + "/" or p + "/anything"; a
\* descriptor without a path adds no rule for its aliases.
C12_AliasRedirects ==
    TableReturned =>
        \A k \in 1..Len(module_infos) :
            \A alias \in Range(module_infos[k].aliases) :
                LET path == module_infos[k].path
                    rules == AliasRules(alias, path)
                IN  IF path = None THEN rules = {}
                    ELSE /\ Cardinality(rules) = 1
                         /\ \A i \in rules :
                                heap[handlers[i][3][2]]
                                    = ("url" :> <<"str", path
                                                  \o <<"{", "0", "}">>>>)
                         /\ /\ request # None
                            /\ SubpathAfter(alias, request) # None
                            => response
                                   = <<"redirect",
                                       path
                                       \o SubpathAfter(alias, request)[2]>>

\* the request for /Z/aB was redirected to /zitate/aB, and the table has no
\* rule for the alias /x of the descriptor without a path
C12_Witness ==
    /\ request = <<"/", "Z", "/", "a", "B">>
    /\ response = <<"redirect", <<"/", "z", "i", "t", "a", "t", "e",
                                  "/", "a", "B">>>>
    /\ \E k \in 1..Len(module_infos) :
           module_infos[k].path = None /\ Len(module_infos[k].aliases) > 0

(***************************************************************************)
(* Properties of parse                                                     *)
(***************************************************************************)
\* the outcomes of the calls made so far
Outcomes == { outcomes[k] : k \in 1..Len(outcomes) }

\* the call raised a ValueError
IsValueError(outcome) == outcome[1] = "raise" /\ outcome[2] = "ValueError"

\* parse(Person, {"name": "a", "age": "7", "active": "sure"}, ...)
C17_Call ==
    /\ type_ = PersonType
    /\ data = PersonData(StrValue(<<"7">>), StrValue(<<"s", "u", "r", "e">>))

\* C17: for Person(name: str, age: int, active: bool) and the raw mapping
\* {name: 'a', age: '7', active: 'sure'}, parse in non-strict mode returns
\* Person(name='a', age=7, active=True); in strict mode it raises ValueError
\* and returns no instance
C17_PersonParsed ==
    C17_Call =>
        \A outcome \in Outcomes :
            IF strict THEN IsValueError(outcome)
            ELSE outcome =
                     Return(Instance("Person",
                                     <<<<S_name, StrValue(S_a)>>,
                                       <<S_age, IntValue(7)>>,
                                       <<S_active, BoolValue(TRUE)>>>>))

\* the non-strict call has returned
C17_Witness == C17_Call /\ ~strict /\ Len(outcomes) > 0

\* C18: parsing list[T] from a list is atomic: every element is parsed as T
\* on its own; if one of them fails the call raises ValueError and returns
\* no list, e.g. list[int] from ['1', 'x', '3']; if all of them parse the
\* result is the list of the parsed elements, in the order of the input
C18_ListAtomic ==
    (type_[1] = "generic" /\ data[1] = "list") =>
        \A outcome \in Outcomes :
            \E luck \in BOOLEAN :
                LET items == [k \in 1..Len(data[2]) |->
                                  parse(get_args(type_)[1], data[2][k],
                                        strict, luck)]
                IN  IF \E k \in 1..Len(items) : items[k][1] = "raise"
                    THEN IsValueError(outcome)
                    ELSE outcome =
                             Return(ListValue([k \in 1..Len(items) |->
                                                   items[k][2]]))

\* type_ is T | None for a class T
IsOptional(t) ==
    /\ t[1] = "union"
    /\ Len(t[2]) = 2
    /\ t[2][1][1] = "class"
    /\ t[2][2] = Class("NoneType")

\* C19: for T | None, a raw value that is a T already or is None is returned
\* unchanged; every other raw value is parsed as T and the result of that is
\* the result, e.g. parse(int | None, '7') gives 7 in non-strict mode
C19_OptionalParsed ==
    IsOptional(type_) =>
        \A outcome \in Outcomes :
            IF data = None \/ IsInstance(data, type_[2][1]) = "True"
            THEN outcome = Return(data)
            ELSE \E luck \in BOOLEAN :
                     outcome = parse(type_[2][1], data, strict, luck)

\* the vocabulary of the truth values
TrueWords == {<<"s", "u", "r", "e">>, <<"y">>, <<"y", "e", "s">>, <<"t">>, <<"t", "r", "u", "e">>, <<"o", "n">>, <<"1">>}
FalseWords == {<<"n", "o", "p", "e">>, <<"n">>, <<"n", "o">>, <<"f">>, <<"f", "a", "l", "s", "e">>, <<"o", "f", "f">>, <<"0">>}

\* C20: parse(bool, data): a bool is returned unchanged in both modes; in
\* strict mode everything else raises ValueError; in non-strict mode the
\* ints 0 and 1 give False and True, a str of the true words gives True, a
\* str of the false words gives False, and every other input raises
\* ValueError and nothing else
C20_BoolParsed ==
    type_ = Class("bool") =>
        \A outcome \in Outcomes :
            IF data[1] = "bool" THEN outcome = Return(data)
            ELSE IF strict THEN IsValueError(outcome)
            ELSE IF data = IntValue(0) THEN outcome = Return(BoolValue(FALSE))
            ELSE IF data = IntValue(1) THEN outcome = Return(BoolValue(TRUE))
            ELSE IF data[1] = "str" /\ data[2] \in TrueWords
            THEN outcome = Return(BoolValue(TRUE))
            ELSE IF data[1] = "str" /\ data[2] \in FalseWords
            THEN outcome = Return(BoolValue(FALSE))
            ELSE IsValueError(outcome)

(***************************************************************************)
(* utils/utils.py: the class Timer and time_function.  time.time() is the  *)
(* clock of the system, in ticks: it can be set, forwards and backwards    *)
(***************************************************************************)
MaxTime == 2
MaxTimed == 4

\* a float of seconds, as a number of ticks
Seconds(ticks) == <<"float", ticks>>

\* Timer.__init__
Timer(time) == [_execution_time |-> None, _start_time |-> Seconds(time)]

\* Timer.stop without the test at its start
StopUnchecked(self, time) ==
    IF "_start_time" \notin DOMAIN self
    THEN [self |-> self,
          result |-> Raise("AttributeError", <<"_start_time">>)]
    ELSE LET elapsed == Seconds(time - self._start_time[2])
         IN  [self |-> [_execution_time |-> elapsed],
              result |-> Return(elapsed)]

\* Timer.stop: the object after the call and what the call gave
stop(self, time) ==
    IF self._execution_time # None
    THEN [self |-> self,
          result |-> Raise("ValueError", <<"Timer has been stopped before.">>)]
    ELSE IF "_start_time" \notin DOMAIN self
    THEN [self |-> self,
          result |-> Raise("AttributeError", <<"_start_time">>)]
    ELSE LET elapsed == Seconds(time - self._start_time[2])
         IN  [self |-> [_execution_time |-> elapsed],
              result |-> Return(elapsed)]

\* the property Timer.execution_time
execution_time(self) ==
    IF self._execution_time = None
    THEN Raise("ValueError", <<"Timer wasn't stopped yet.">>)
    ELSE Return(self._execution_time)

\* what the function handed to time_function returns
FunctionResults == {None, <<"int", 1>>}

InitTimer ==
    /\ listing = <<>>
    /\ dev_mode = FALSE
    /\ config = <<>>
    /\ IGNORED_MODULES = BuiltinIgnoredModules
    /\ pc = "timer"
    /\ di = 1
    /\ fi = 1
    /\ module_infos = <<>>
    /\ loaded_modules = <<>>
    /\ errors = <<>>
    /\ heap = <<>>
    /\ imported = <<>>
    /\ invoked = <<>>
    /\ log = <<>>
    /\ exit_msg = None
    /\ sorted_infos = <<>>
    /\ hi = 1
    /\ handlers = <<>>
    /\ exception = <<>>
    /\ app = None
    /\ sys_modules = {}
    /\ passes = 1
    /\ previous = None
    /\ server = None
    /\ request = None
    /\ response = None
    /\ type_ = None
    /\ data = None
    /\ strict = FALSE
    /\ outcomes = <<>>
    /\ calls = <<>>
    /\ query = None
    /\ answer = None
    /\ now \in 0..MaxTime
    /\ timer = None
    /\ holder = None
    /\ timed = <<>>

NoOther ==
    UNCHANGED <<inputs, IGNORED_MODULES, pc, di, fi, module_infos,
                loaded_modules, errors, heap, imported, invoked, log,
                exit_msg, sorted_infos, hi, handlers, exception, app,
                sys_modules, passes, previous, server, request, response,
                parsing>>

\* the clock of the system goes on or is set
ClockMoves ==
    /\ pc = "timer"
    /\ \E time \in 0..MaxTime :
           /\ time # now
           /\ now' = time
    /\ UNCHANGED <<timer, holder, timed>>
    /\ NoOther

\* timer = Timer(), in a caller that keeps the object
NewTimer ==
    /\ pc = "timer"
    /\ holder = None
    /\ timer' = Timer(now)
    /\ holder' = <<"str", "caller">>
    /\ timed' = <<>>
    /\ UNCHANGED now
    /\ NoOther

\* timer.stop()
Stop ==
    /\ pc = "timer"
    /\ holder = <<"str", "caller">>
    /\ Len(timed) < MaxTimed
    /\ timer' = stop(timer, now).self
    /\ timed' = Append(timed, <<"stop", stop(timer, now).result>>)
    /\ UNCHANGED <<now, holder>>
    /\ NoOther

\* timer.execution_time
ExecutionTime ==
    /\ pc = "timer"
    /\ holder = <<"str", "caller">>
    /\ Len(timed) < MaxTimed
    /\ timed' = Append(timed, <<"execution_time", execution_time(timer)>>)
    /\ UNCHANGED <<now, timer, holder>>
    /\ NoOther

\* the caller lets go of the Timer
DropTimer ==
    /\ pc = "timer"
    /\ holder = <<"str", "caller">>
    /\ timer' = None
    /\ holder' = None
    /\ timed' = <<>>
    /\ UNCHANGED now
    /\ NoOther

\* time_function(function, *args): timer = Timer(), then function runs
TimeFunction ==
    /\ pc = "timer"
    /\ holder = None
    /\ timer' = Timer(now)
    /\ holder' = <<"str", "time_function">>
    /\ timed' = <<>>
    /\ UNCHANGED now
    /\ NoOther

\* function(*args) returned: return function(*args), timer.stop()
FunctionReturns ==
    /\ pc = "timer"
    /\ holder = <<"str", "time_function">>
    /\ \E result \in FunctionResults :
           timed' = <<<<"time_function",
                        IF stop(timer, now).result[1] = "raise"
                        THEN stop(timer, now).result
                        ELSE Return(<<"tuple",
                                      <<result,
                                        stop(timer, now).result[2]>>>>)>>>>
    /\ timer' = None
    /\ holder' = None
    /\ UNCHANGED now
    /\ NoOther

\* function(*args) raised: timer.stop() is not called
FunctionRaises ==
    /\ pc = "timer"
    /\ holder = <<"str", "time_function">>
    /\ timed' = <<<<"time_function", Raise("Exception", <<>>)>>>>
    /\ timer' = None
    /\ holder' = None
    /\ UNCHANGED now
    /\ NoOther

NextTimer ==
    \/ ClockMoves
    \/ NewTimer
    \/ Stop
    \/ ExecutionTime
    \/ DropTimer
    \/ TimeFunction
    \/ FunctionReturns
    \/ FunctionRaises

SpecTimer == InitTimer /\ [][NextTimer]_vars

\* C21: parse(int, data): an int is returned unchanged; in strict mode
\* everything that is not an int (a str, a bool, a float, a container)
\* raises ValueError; in non-strict mode a str is read as an integer literal
\* with or without the prefix 0x, 0o or 0b, and a bool gives the int 0 or 1
C21_IntParsed ==
    type_ = Class("int") =>
        \A outcome \in Outcomes :
            IF data[1] = "int" THEN outcome = Return(data)
            ELSE IF strict THEN IsValueError(outcome)
            ELSE IF data[1] = "str"
            THEN IF IntLiteral(data[2], 0) = None THEN IsValueError(outcome)
                 ELSE outcome = Return(IntLiteral(data[2], 0))
            ELSE IF data[1] = "bool"
            THEN outcome = Return(IntValue(IF data[2] THEN 1 ELSE 0))
            ELSE TRUE

\* the classes of the model with an __init__ of their own
ClassTypes == {PersonType, OptionsType, LimitsType}

\* the parameters of __init__ after self
Fields(t) == Tail(Signature(t))

\* what the claim says of one parameter: the default for a missing key, the
\* error for a missing key without a default, the parsed raw value else
Resolved(param, items, is_strict, luck) ==
    IF ~HasKey(items, param.name)
    THEN IF param.default = Empty
         THEN Raise("ValueError", "Missing required argument")
         ELSE Return(param.default)
    ELSE parse(param.annotation, GetItem(items, param.name), is_strict, luck)

\* the first of the results that is an exception; 0 if none is
FirstRaise(results) ==
    IF \A k \in 1..Len(results) : results[k][1] # "raise" THEN 0
    ELSE CHOOSE k \in 1..Len(results) :
             /\ results[k][1] = "raise"
             /\ \A j \in 1..(k - 1) : results[j][1] # "raise"

\* the call passes to every parameter its value, by position or by name,
\* and passes nothing else
Passes(call, fields, results) ==
    /\ call # None
    /\ Len(call[2]) + Len(call[3]) = Len(fields)
    /\ \A k \in 1..Len(fields) :
           \/ \E j \in 1..Len(call[2]) : call[2][j] = results[k][2]
           \/ /\ HasKey(call[3], fields[k].name)
              /\ GetItem(call[3], fields[k].name) = results[k][2]

\* parse gave this outcome and made this call of the constructor, the
\* parameters resolved as in results
AsResolved(outcome, call, fields, results) ==
    IF FirstRaise(results) # 0
    THEN outcome = results[FirstRaise(results)] /\ call = None
    ELSE Passes(call, fields, results)

\* a mapping for a class of the model whose keys, as far as they name
\* parameters, name parameters with an annotation
C22_Call ==
    /\ type_ \in ClassTypes
    /\ data[1] = "dict"
    /\ \A k \in 1..Len(Fields(type_)) :
           HasKey(data[2], Fields(type_)[k].name)
               => Fields(type_)[k].annotation # Empty

\* C22: parsing a mapping into a class resolves every parameter of the
\* constructor in declaration order against the key of its name: a missing
\* key with a default gives the default in both modes, a missing key
\* without one raises the ValueError "Missing required argument" and no
\* instance is constructed, a present key is parsed into the annotation of
\* the parameter; the constructor gets the resolved values
C22_ParametersResolved ==
    C22_Call =>
        \A n \in 1..Len(outcomes) :
            \E luck \in BOOLEAN :
                AsResolved(outcomes[n], calls[n], Fields(type_),
                           [k \in 1..Len(Fields(type_)) |->
                                Resolved(Fields(type_)[k], data[2], strict,
                                         luck)])

\* a default was used in a call of the constructor
C22_Witness ==
    /\ C22_Call
    /\ ~HasKey(data[2], S_limit)
    /\ \E n \in 1..Len(calls) :
           /\ calls[n] # None
           /\ HasKey(calls[n][3], S_limit)
           /\ GetItem(calls[n][3], S_limit) = IntValue(3)

\* the first parameter that is variadic or keyword-only; one more than the
\* number of the parameters if there is none
Marker(fields) ==
    IF \A k \in 1..Len(fields) : fields[k].kind = "POSITIONAL_OR_KEYWORD"
    THEN Len(fields) + 1
    ELSE CHOOSE k \in 1..Len(fields) :
             /\ fields[k].kind # "POSITIONAL_OR_KEYWORD"
             /\ \A j \in 1..(k - 1) : fields[j].kind = "POSITIONAL_OR_KEYWORD"

\* C23: when parse constructs a class, the values of the parameters before
\* the first variadic or keyword-only parameter are passed by position, in
\* the order of their declaration, and the values of that parameter and of
\* all after it are passed by name
C23_PositionalThenNamed ==
    type_ \in ClassTypes =>
        \A n \in 1..Len(calls) :
            calls[n] # None =>
                /\ Len(calls[n][2]) = Marker(Fields(type_)) - 1
                /\ \A k \in 1..Len(Fields(type_)) :
                       HasKey(calls[n][3], Fields(type_)[k].name)
                           <=> k >= Marker(Fields(type_))

\* C24: parse is deterministic: two calls with the same type, the same raw
\* value and the same mode have the same outcome, the same value or the
\* same exception
C24_SameOutcome ==
    \A first, second \in 1..Len(outcomes) : outcomes[first] = outcomes[second]

(***************************************************************************)
(* Properties of parse_args                                                *)
(***************************************************************************)
\* the mapping holds one str for every key of the request that has a
\* value, the last of its values, and nothing else
OneStringPerKey(items, arguments) ==
    /\ \A k \in 1..Len(items) :
           IF Len(items[k][2]) = 0 THEN ~HasKey(arguments, items[k][1])
           ELSE /\ HasKey(arguments, items[k][1])
                /\ GetItem(arguments, items[k][1])
                       = StrValue(items[k][2][Len(items[k][2])][2])
    /\ \A j \in 1..Len(arguments) :
           \E k \in 1..Len(items) : items[k][1] = arguments[j][1]

\* C25: a handler wrapped by parse_args gets the arguments of the request,
\* one str per key (the last value of every key that has one), parsed in
\* non-strict mode into the type; whenever that parse fails the handler is
\* not run and the caller gets an HTTPError 400 whose reason is the message
\* of the parser, and no other exception
C25_ParseFailureIs400 ==
    (answer # None /\ Len(outcomes) > 0) =>
        /\ OneStringPerKey(query, data[2])
        /\ \E luck \in BOOLEAN : outcomes[1] = parse(type_, data, FALSE, luck)
        /\ IF outcomes[1][1] = "raise"
           THEN answer = HTTPError(400, outcomes[1][3])
           ELSE answer = Func(outcomes[1][2])

(***************************************************************************)
(* Properties of the process start, continued                              *)
(***************************************************************************)
\* the positions of the descriptors with the path "/"
Roots(infos) == { i \in 1..Len(infos) : infos[i].path = P_root }

\* infos without the descriptor at position m
Without(infos, m) ==
    [i \in 1..(Len(infos) - 1) |-> infos[IF i < m THEN i ELSE i + 1]]

\* C26: of several descriptors with the path "/" sort_module_infos moves
\* one to index 0, the first of them in the sorted list; the descriptors
\* that are not moved keep the order the sort gave them, in every case
C26_FirstRootMoved ==
    [][SortReturns =>
           IF Roots(sorted_infos') = {} THEN module_infos' = sorted_infos'
           ELSE \E m \in Roots(sorted_infos') :
                    /\ \A j \in Roots(sorted_infos') : m <= j
                    /\ Len(module_infos') = Len(sorted_infos')
                    /\ module_infos'[1] = sorted_infos'[m]
                    /\ Tail(module_infos') = Without(sorted_infos', m)]_vars

\* two descriptors have the path "/" and the sort is over
C26_Witness ==
    /\ pc = "get_all_handlers"
    /\ Cardinality(Roots(sorted_infos)) >= 2
    /\ Cardinality(Roots(module_infos)) >= 2

\* the rules of a descriptor whose handler type is a native type of tornado
NativeRules(info) == { r \in Range(info.handlers) : r[2] \in NativeHandlers }

\* C27: a rule of a descriptor whose handler type is a native type is
\* appended to the routing table as it is: the same elements, the settings
\* the same dict object if it has one, and that dict with the keys and the
\* values it had; no settings are made for it and no module_info is stored.
C27_NativeRuleKept ==
    [][pc = "build" /\ hi <= Len(module_infos) =>
           \A r \in NativeRules(module_infos[hi]) :
               /\ \E i \in (Len(handlers) + 1)..Len(handlers') :
                      handlers'[i] = r
               /\ Len(r) >= 3 /\ r[3] # None
                      => /\ heap'[r[3][2]] = heap[r[3][2]]
                         /\ "module_info" \notin DOMAIN heap'[r[3][2]]]_vars

\* the table holds the redirect of the API module and the static files of
\* the quotes, each with the settings its module gave it and nothing else
C27_Witness ==
    /\ TableReturned
    /\ \E k \in 1..Len(module_infos) :
           \E r \in NativeRules(module_infos[k]) :
               /\ r[2] = "RedirectHandler"
               /\ r \in Range(handlers)
               /\ DOMAIN heap[r[3][2]] = {"url"}
    /\ \E k \in 1..Len(module_infos) :
           \E r \in NativeRules(module_infos[k]) :
               /\ r[2] = "StaticFileHandler"
               /\ r \in Range(handlers)
               /\ DOMAIN heap[r[3][2]] = {"path"}

\* the entry point of the file the scan is at is there and its annotation of
\* the returned value is the string ModuleInfo
EntryPointDeclared ==
    /\ potential_file.module.has_entry
    /\ potential_file.module.annotation = S_ModuleInfo

\* C28: the loader takes a descriptor only from a file whose entry point is
\* annotated with ModuleInfo and whose call returned a ModuleInfo, and takes
\* it from that one call; get_module_info of a file is called at most once
\* in a pass, and never when it is missing or annotated with something else.
C28_EntryPointChecked ==
    /\ [](\A a, b \in 1..Len(invoked) : invoked[a] = invoked[b] => a = b)
    /\ [][pc = "scan_file" =>
              /\ \/ invoked' = invoked
                 \/ /\ invoked' = Append(invoked, CurrentUnit)
                    /\ EntryPointDeclared
              /\ module_infos' # module_infos
                     => /\ EntryPointDeclared
                        /\ potential_file.module.call = "info"
                        /\ invoked' = Append(invoked, CurrentUnit)
                        /\ Len(module_infos') = Len(module_infos) + 1
                        /\ SubSeq(module_infos', 1, Len(module_infos))
                               = module_infos]_vars

\* the second pass of a process has imported a file without entry point or
\* with another annotation and did not call it, has called an entry point
\* that returned something else, and has taken a descriptor
C28_Witness ==
    /\ passes = 2
    /\ Len(module_infos) >= 1
    /\ Len(invoked) > Len(module_infos)
    /\ Len(imported) > Len(invoked)

(***************************************************************************)
(* Properties of the Timer                                                 *)
(***************************************************************************)
\* the calls of stop that returned, by their place among the calls so far
StopsReturned(history) ==
    { i \in 1..Len(history) :
          history[i][1] = "stop" /\ history[i][2][1] = "return" }

\* a call on the Timer a caller holds was made in this step
Called(name) ==
    /\ holder = <<"str", "caller">>
    /\ Len(timed') = Len(timed) + 1
    /\ timed'[Len(timed')][1] = name

\* C29: a Timer is stopped once.  The first stop() returns time.time()
\* minus the time of the construction and stores it in the Timer; every
\* later stop() raises ValueError and leaves the stored time alone;
\* execution_time raises ValueError before the first stop() and returns what
\* that stop() returned after it, and changes nothing.
C29_StoppedOnce ==
    /\ [](Cardinality(StopsReturned(timed)) <= 1)
    /\ [][Called("stop") =>
              IF StopsReturned(timed) = {}
              THEN /\ timed'[Len(timed')][2]
                          = Return(Seconds(now - timer._start_time[2]))
                   /\ timer'._execution_time
                          = Seconds(now - timer._start_time[2])
              ELSE /\ timed'[Len(timed')][2][1] = "raise"
                   /\ timed'[Len(timed')][2][2] = "ValueError"
                   /\ timer' = timer]_vars
    /\ [][Called("execution_time") =>
              /\ timer' = timer
              /\ IF StopsReturned(timed) = {}
                 THEN /\ timed'[Len(timed')][2][1] = "raise"
                      /\ timed'[Len(timed')][2][2] = "ValueError"
                 ELSE \E i \in StopsReturned(timed) :
                          timed'[Len(timed')][2] = timed[i][2]]_vars

\* execution_time raised, stop() returned a time that is not zero, a second
\* stop() raised and execution_time returned
C29_Witness ==
    /\ Len(timed) = 4
    /\ timed[1] = <<"execution_time",
                    Raise("ValueError", <<"Timer wasn't stopped yet.">>)>>
    /\ timed[2][1] = "stop" /\ timed[2][2][1] = "return"
    /\ timed[2][2][2] # Seconds(0)
    /\ timed[3] = <<"stop",
                    Raise("ValueError", <<"Timer has been stopped before.">>)>>
    /\ timed[4] = <<"execution_time", timed[2][2]>>

(***************************************************************************)
(* Properties of the answers, continued                                    *)
(***************************************************************************)
\* the rule that answers the request is the redirect "(?i)/(.+)/api/?"
AnsweredByFallback ==
    /\ pc = "listening"
    /\ request # None
    /\ FindRule(handlers, 1, request) # 0
    /\ handlers[FindRule(handlers, 1, request)][1] = RE_any_api

\* C30: a request that the redirect "(?i)/(.+)/api/?" answers is sent to
\* "/api/" and the part the group matched, and that is another path than the
\* one of the request: who follows it is not sent back to where they were.
C30_RedirectLeavesPath ==
    AnsweredByFallback =>
        /\ response[1] = "redirect"
        /\ response[2] # request

====
